---- MODULE Spec2Model ----
(***************************************************************************)
(* The bridge layer of the Electron SDK: the inbound event router          *)
(* (handleEvent / emitEvent, the EVENT_PROCESSORS family table), the      *)
(* listener facade and observer registries of RtcEngineExInternal, and    *)
(* the outbound call path callIrisApi.                                     *)
(*                                                                         *)
(* JavaScript values are modelled as follows.                              *)
(*   - a string is a TLA+ string (Len, SubSeq and \o act on characters);   *)
(*   - a payload value is a record [kind, fields]: kind "object" with the  *)
(*     object's own properties in `fields` (a function from property name  *)
(*     to value), or kind "primitive" (a JSON number, string or boolean,   *)
(*     which has no own properties and cannot be assigned one);            *)
(*   - the buffer list is a record [defined, list];                        *)
(*   - an observer, a listener function and a buffer are opaque            *)
(*     identities (strings); "undefined" is the JavaScript undefined.      *)
(***************************************************************************)
EXTENDS Integers, Sequences, FiniteSets, TLC

VARIABLES
    event_handlers,                     \* RtcEngineExInternal._event_handlers
    direct_cdn_streaming_event_handler, \* RtcEngineExInternal._direct_cdn_streaming_event_handler
    metadata_observer,                  \* RtcEngineExInternal._metadata_observer
    audio_encoded_frame_observers,      \* RtcEngineExInternal._audio_encoded_frame_observers
    audio_spectrum_observers,           \* RtcEngineExInternal._audio_spectrum_observers
    player_observers,                   \* MediaPlayerInternal._*_observers (maps keyed by player id)
    recorder_observers,                 \* MediaRecorderInternal._observers (map keyed by native handle)
    media_engine_observers,             \* MediaEngineInternal._*_observers
    music_event_handlers,               \* MusicContentCenterInternal._event_handlers
    preprocess_defined,                 \* families whose EVENT_PROCESSORS entry still has a preprocess
    bus,                                \* DeviceEventEmitter: event name -> attached callbacks, in order
    callbacks,                          \* the derived callbacks created by addListener, by identity
    agoraCallback,                      \* listener.agoraCallback, per listener function
    removed,                            \* history: (name, listener) removed and not added again
    AgoraEnv,                           \* AgoraEnv.enableLogging, AgoraEnv.enableDebugLogging
    last                                \* observation of the most recent operation

vars == << event_handlers, direct_cdn_streaming_event_handler, metadata_observer,
           audio_encoded_frame_observers, audio_spectrum_observers, player_observers,
           recorder_observers, media_engine_observers, music_event_handlers,
           preprocess_defined, bus, callbacks, agoraCallback, removed, AgoraEnv, last >>

registries == << event_handlers, direct_cdn_streaming_event_handler, metadata_observer,
                 audio_encoded_frame_observers, audio_spectrum_observers, player_observers,
                 recorder_observers, media_engine_observers, music_event_handlers >>

----------------------------------------------------------------------------
(* Bounds of the model.                                                    *)

\* at most this many addListener calls are made in one run
MaxCallbacks == 2

\* at most this many observers are stored over all registries at once
MaxRegistered == 2

Undefined == "undefined"

\* observer objects the client registers; EmptyObserver is the `{}` literal
\* that _addListenerPreCheck registers for a permissive category
Observers == {"o1", "o2"}

EmptyObserver == "{}"

\* listener functions the client passes to addListener / removeListener
Listeners == {"f", "g"}

\* the observers and listeners whose callback raises an exception when called
Faulty == {"o2", "g"}

PlayerIds == {1, 2}

----------------------------------------------------------------------------
(* Strings.                                                                *)

\* String.prototype.startsWith
StartsWith(s, p) == Len(p) <= Len(s) /\ SubSeq(s, 1, Len(p)) = p

\* String.prototype.endsWith
EndsWith(s, p) == Len(p) <= Len(s) /\ SubSeq(s, Len(s) - Len(p) + 1, Len(s)) = p

\* the rest of s after its first n characters
DropFirst(s, n) == SubSeq(s, n + 1, Len(s))

\* s without its last n characters
DropLast(s, n) == SubSeq(s, 1, Len(s) - n)

----------------------------------------------------------------------------
(* The family descriptor table EVENT_PROCESSORS, in the order of its keys  *)
(* (Object.values keeps insertion order).  `preprocess` tells whether the  *)
(* entry is written with a preprocess function.                            *)

EVENT_TYPE == {"IMediaEngine", "IMediaPlayer", "IMediaRecorder", "IRtcEngine", "IMusicContentCenter"}

EVENT_PROCESSORS ==
    << [key |-> "IAudioFrameObserver", suffix |-> "AudioFrameObserver_",
        func |-> <<"processIAudioFrameObserver", "processIAudioFrameObserverBase">>,
        preprocess |-> TRUE],
       [key |-> "IVideoFrameObserver", suffix |-> "VideoFrameObserver_",
        func |-> <<"processIVideoFrameObserver">>, preprocess |-> TRUE],
       [key |-> "IAudioSpectrumObserver", suffix |-> "AudioSpectrumObserver_",
        func |-> <<"processIAudioSpectrumObserver">>, preprocess |-> FALSE],
       [key |-> "IAudioEncodedFrameObserver", suffix |-> "AudioEncodedFrameObserver_",
        func |-> <<"processIAudioEncodedFrameObserver">>, preprocess |-> TRUE],
       [key |-> "IVideoEncodedFrameObserver", suffix |-> "VideoEncodedFrameObserver_",
        func |-> <<"processIVideoEncodedFrameObserver">>, preprocess |-> TRUE],
       [key |-> "IMediaPlayerSourceObserver", suffix |-> "MediaPlayerSourceObserver_",
        func |-> <<"processIMediaPlayerSourceObserver">>, preprocess |-> FALSE],
       [key |-> "IAudioPcmFrameSink", suffix |-> "AudioPcmFrameSink_",
        func |-> <<"processIAudioPcmFrameSink">>, preprocess |-> TRUE],
       [key |-> "IMediaPlayerVideoFrameObserver", suffix |-> "MediaPlayerVideoFrameObserver_",
        func |-> <<"processIMediaPlayerVideoFrameObserver">>, preprocess |-> TRUE],
       [key |-> "IMediaRecorderObserver", suffix |-> "MediaRecorderObserver_",
        func |-> <<"processIMediaRecorderObserver">>, preprocess |-> FALSE],
       [key |-> "IMetadataObserver", suffix |-> "MetadataObserver_",
        func |-> <<"processIMetadataObserver">>, preprocess |-> TRUE],
       [key |-> "IDirectCdnStreamingEventHandler", suffix |-> "DirectCdnStreamingEventHandler_",
        func |-> <<"processIDirectCdnStreamingEventHandler">>, preprocess |-> FALSE],
       [key |-> "IRtcEngineEventHandler", suffix |-> "RtcEngineEventHandler_",
        func |-> <<"processIRtcEngineEventHandler">>, preprocess |-> TRUE],
       [key |-> "IMusicContentCenterEventHandler", suffix |-> "MusicContentCenterEventHandler_",
        func |-> <<"processIMusicContentCenterEventHandler">>, preprocess |-> TRUE] >>

\* the table with the audio frame family registered under the prefix 'Audio',
\* which three other prefixes begin with
ProcessorValuesOverlapping ==
    [i \in 1..Len(EVENT_PROCESSORS) |->
        IF EVENT_PROCESSORS[i].key = "IAudioFrameObserver"
        THEN [EVENT_PROCESSORS[i] EXCEPT !.suffix = "Audio"]
        ELSE EVENT_PROCESSORS[i]]

\* Object.values(EVENT_PROCESSORS): the descriptors, in insertion order
ProcessorValues == EVENT_PROCESSORS

FamilyKeys == {EVENT_PROCESSORS[i].key : i \in 1..Len(EVENT_PROCESSORS)}

\* the families whose table entry is written with a preprocess function
InitialPreprocess == {EVENT_PROCESSORS[i].key : i \in {j \in 1..Len(EVENT_PROCESSORS) : EVENT_PROCESSORS[j].preprocess}}

----------------------------------------------------------------------------
(* Payload values.                                                         *)

EmptyFields == [k \in {} |-> Undefined]

Object(fields) == [kind |-> "object", fields |-> fields]

\* the object literal {}
EmptyObject == Object(EmptyFields)

\* a JSON number, string or boolean
Primitive == [kind |-> "primitive", fields |-> EmptyFields]

\* the value null, and the absent value of a parse that raised
Null == [kind |-> "null", fields |-> EmptyFields]

NoValue == [kind |-> "undefined", fields |-> EmptyFields]

\* `name in data` for an object, and whether data.name is not undefined
Has(data, name) == data.kind = "object" /\ name \in DOMAIN data.fields

\* o with property name set to value
Put(o, name, value) == [k \in (DOMAIN o) \cup {name} |-> IF k = name THEN value ELSE o[k]]

\* json-bigint's parse, on the payload texts of the model: the parsed value,
\* null, or a SyntaxError
JSONparse(text) ==
    CASE text = "{}" -> [thrown |-> FALSE, null |-> FALSE, value |-> EmptyObject]
      [] text = "null" -> [thrown |-> FALSE, null |-> TRUE, value |-> Null]
      [] text = "7" -> [thrown |-> FALSE, null |-> FALSE, value |-> Primitive]
      [] text = "{\"connection\":{}}" ->
            [thrown |-> FALSE, null |-> FALSE, value |-> Object([connection |-> EmptyFields])]
      [] text = "{\"playerId\":0}" ->
            [thrown |-> FALSE, null |-> FALSE, value |-> Object([playerId |-> 0])]
      [] text = "{\"playerId\":1,\"frame\":{}}" ->
            [thrown |-> FALSE, null |-> FALSE,
             value |-> Object([playerId |-> 1, frame |-> EmptyFields])]
      [] text = "{\"playerId\":2,\"frame\":{}}" ->
            [thrown |-> FALSE, null |-> FALSE,
             value |-> Object([playerId |-> 2, frame |-> EmptyFields])]
      [] text = "{\"videoFrame\":{}}" ->
            [thrown |-> FALSE, null |-> FALSE, value |-> Object([videoFrame |-> EmptyFields])]
      [] text = "{\"videoFrame\":{\"yBuffer\":\"stale\",\"width\":4}}" ->
            [thrown |-> FALSE, null |-> FALSE,
             value |-> Object([videoFrame |-> [yBuffer |-> "stale", width |-> 4]])]
      [] text = "{\"audioFrame\":{}}" ->
            [thrown |-> FALSE, null |-> FALSE, value |-> Object([audioFrame |-> EmptyFields])]
      [] text = "{\"metadata\":{}}" ->
            [thrown |-> FALSE, null |-> FALSE, value |-> Object([metadata |-> EmptyFields])]
      [] text = "{\"nativeHandle\":\"h1\"}" ->
            [thrown |-> FALSE, null |-> FALSE, value |-> Object([nativeHandle |-> "h1"])]
      [] text = "{\"result\":0}" ->
            [thrown |-> FALSE, null |-> FALSE, value |-> Object([result |-> 0])]
      [] text = "{\"result\":-2}" ->
            [thrown |-> FALSE, null |-> FALSE, value |-> Object([result |-> -2])]
      [] OTHER -> [thrown |-> TRUE, null |-> FALSE, value |-> NoValue]

\* the parse without the `?? {}` fallback for null
ParseDataNoFallback(text) ==
    LET r == JSONparse(text)
    IN  IF r.thrown THEN EmptyObject ELSE r.value

\* try { _data = JSON.parse(data) ?? {} } catch (e) { _data = {} }
ParseData(text) ==
    LET r == JSONparse(text)
    IN  IF r.thrown \/ r.null THEN EmptyObject ELSE r.value

----------------------------------------------------------------------------
(* Buffers.                                                                *)

NoBuffers == [defined |-> FALSE, list |-> << >>]

Buffers(list) == [defined |-> TRUE, list |-> list]

\* buffers[i], for a defined buffer list (JavaScript indexes from 0)
BufferAt(buffers, i) == IF i + 1 <= Len(buffers.list) THEN buffers.list[i + 1] ELSE Undefined

\* Array.from(buffer ?? []): the bytes of the buffer, as an array
ArrayFrom(buffer) == IF buffer = Undefined THEN << >> ELSE << buffer >>

----------------------------------------------------------------------------
(* The functions of a family descriptor: type, handlers, preprocess.       *)

\* EventProcessor.type(data): the family kind of an event of family `key`
Type(key, data) ==
    CASE key \in {"IAudioFrameObserver", "IVideoFrameObserver", "IVideoEncodedFrameObserver"} ->
            "IMediaEngine"
      [] key = "IAudioSpectrumObserver" ->
            IF Has(data, "playerId") /\ data.fields.playerId = 0
            THEN "IRtcEngine" ELSE "IMediaPlayer"
      [] key \in {"IAudioEncodedFrameObserver", "IMetadataObserver",
                  "IDirectCdnStreamingEventHandler", "IRtcEngineEventHandler"} ->
            "IRtcEngine"
      [] key \in {"IMediaPlayerSourceObserver", "IAudioPcmFrameSink",
                  "IMediaPlayerVideoFrameObserver"} ->
            "IMediaPlayer"
      [] key = "IMediaRecorderObserver" -> "IMediaRecorder"
      [] key = "IMusicContentCenterEventHandler" -> "IMusicContentCenter"

\* the outcomes of EventProcessor.handlers: a list of targets (an element may be
\* undefined), the no-targets value undefined, or an exception
Targets(list) == [thrown |-> FALSE, defined |-> TRUE, list |-> list]

NoTargets == [thrown |-> FALSE, defined |-> FALSE, list |-> << >>]

HandlersThrew == [thrown |-> TRUE, defined |-> FALSE, list |-> << >>]

\* a lookup that ignores the key and returns the first entry of the map
MapGetFirst(map, data, name) ==
    IF DOMAIN map = {} THEN NoTargets
    ELSE Targets(map[CHOOSE k \in DOMAIN map : \A j \in DOMAIN map : k <= j])

\* map.get(data[name]) for a Map of observer lists
MapGet(map, data, name) ==
    IF Has(data, name) /\ data.fields[name] \in DOMAIN map
    THEN Targets(map[data.fields[name]])
    ELSE NoTargets

\* audio spectrum targets that ignore the player id
SpectrumHandlersEngineWide(data) == Targets(audio_spectrum_observers)

\* EVENT_PROCESSORS.IAudioSpectrumObserver.handlers: data.playerId === 0
\*   ? RtcEngineExInternal._audio_spectrum_observers
\*   : MediaPlayerInternal._audio_spectrum_observers.get(data.playerId)
SpectrumHandlers(data) ==
    IF Has(data, "playerId") /\ data.fields.playerId = 0
    THEN Targets(audio_spectrum_observers)
    ELSE MapGet(player_observers.audio_spectrum, data, "playerId")

\* EventProcessor.handlers(event, data) of family `key`
Handlers(key, event, data) ==
    CASE key = "IAudioFrameObserver" -> Targets(media_engine_observers.audio_frame)
      [] key = "IVideoFrameObserver" -> Targets(media_engine_observers.video_frame)
      [] key = "IAudioSpectrumObserver" -> SpectrumHandlers(data)
      [] key = "IAudioEncodedFrameObserver" -> Targets(audio_encoded_frame_observers)
      [] key = "IVideoEncodedFrameObserver" -> Targets(media_engine_observers.video_encoded_frame)
      [] key = "IMediaPlayerSourceObserver" -> MapGet(player_observers.source, data, "playerId")
      [] key = "IAudioPcmFrameSink" -> MapGet(player_observers.audio_frame, data, "playerId")
      [] key = "IMediaPlayerVideoFrameObserver" ->
            MapGet(player_observers.video_frame, data, "playerId")
      [] key = "IMediaRecorderObserver" ->
            Targets(<< IF Has(data, "nativeHandle") /\ data.fields.nativeHandle \in DOMAIN recorder_observers
                       THEN recorder_observers[data.fields.nativeHandle]
                       ELSE Undefined >>)
      [] key = "IMetadataObserver" -> Targets(metadata_observer)
      [] key = "IDirectCdnStreamingEventHandler" -> Targets(direct_cdn_streaming_event_handler)
      [] key = "IRtcEngineEventHandler" ->
            IF event = "onLocalVideoStats"
            THEN \* `'connection' in data` raises a TypeError when data is no object
                 IF data.kind # "object" THEN HandlersThrew
                 ELSE IF "connection" \in DOMAIN data.fields THEN NoTargets
                 ELSE Targets(event_handlers)
            ELSE Targets(event_handlers)
      [] key = "IMusicContentCenterEventHandler" -> Targets(music_event_handlers)

\* the outcomes of a preprocess call: the payload as it leaves it, and whether it raised
Done(data) == [thrown |-> FALSE, data |-> data]

Threw(data) == [thrown |-> TRUE, data |-> data]

\* data[name] = buffers[i]: reading an undefined buffer list raises, and so does
\* creating a property on a primitive (module code is strict)
AssignBuffer(data, name, buffers, i) ==
    IF ~buffers.defined \/ data.kind # "object" THEN Threw(data)
    ELSE Done(Object(Put(data.fields, name, BufferAt(buffers, i))))

\* a splice that takes every buffer property from position 0
AssignFrameFromFirst(data, outer, names, buffers) ==
    IF ~Has(data, outer) THEN Done(data)
    ELSE IF ~buffers.defined THEN Threw(data)
    ELSE LET frame == data.fields[outer]
             spliced == [k \in (DOMAIN frame) \cup {names[i] : i \in 1..Len(names)} |->
                            IF \E i \in 1..Len(names) : names[i] = k
                            THEN BufferAt(buffers, 0)
                            ELSE frame[k]]
         IN  Done(Object(Put(data.fields, outer, spliced)))

\* if (data[outer]) { data[outer][names[k]] = buffers[k - 1], for each k in order }
AssignFrame(data, outer, names, buffers) ==
    IF ~Has(data, outer) THEN Done(data)
    ELSE IF ~buffers.defined THEN Threw(data)
    ELSE LET frame == data.fields[outer]
             spliced == [k \in (DOMAIN frame) \cup {names[i] : i \in 1..Len(names)} |->
                            IF \E i \in 1..Len(names) : names[i] = k
                            THEN BufferAt(buffers, (CHOOSE i \in 1..Len(names) : names[i] = k) - 1)
                            ELSE frame[k]]
         IN  Done(Object(Put(data.fields, outer, spliced)))

\* EventProcessor.preprocess(event, data, buffers) of family `key`
Preprocess(key, event, data, buffers) ==
    CASE key = "IAudioFrameObserver" -> AssignFrame(data, "audioFrame", << "buffer" >>, buffers)
      [] key = "IVideoFrameObserver" ->
            AssignFrame(data, "videoFrame",
                        << "yBuffer", "uBuffer", "vBuffer", "metadata_buffer", "alphaBuffer" >>,
                        buffers)
      [] key = "IAudioEncodedFrameObserver" ->
            IF event \in {"OnRecordAudioEncodedFrame", "OnPlaybackAudioEncodedFrame",
                          "OnMixedAudioEncodedFrame"}
            THEN AssignBuffer(data, "frameBuffer", buffers, 0)
            ELSE Done(data)
      [] key = "IVideoEncodedFrameObserver" ->
            IF event = "onEncodedVideoFrameReceived"
            THEN AssignBuffer(data, "imageBuffer", buffers, 0)
            ELSE Done(data)
      [] key = "IAudioPcmFrameSink" ->
            IF ~Has(data, "frame") THEN Done(data)
            ELSE IF ~buffers.defined THEN Threw(data)
            ELSE Done(Object(Put(data.fields, "frame",
                                 Put(data.fields.frame, "data_", ArrayFrom(BufferAt(buffers, 0))))))
      [] key = "IMediaPlayerVideoFrameObserver" ->
            AssignFrame(data, "frame",
                        << "yBuffer", "uBuffer", "vBuffer", "metadata_buffer", "alphaBuffer" >>,
                        buffers)
      [] key = "IMetadataObserver" ->
            IF event = "onMetadataReceived"
            THEN AssignFrame(data, "metadata", << "buffer" >>, buffers)
            ELSE Done(data)
      [] key = "IRtcEngineEventHandler" ->
            IF event \in {"onStreamMessage", "onStreamMessageEx"}
            THEN AssignBuffer(data, "data", buffers, 0)
            ELSE Done(data)
      [] key = "IMusicContentCenterEventHandler" ->
            IF event = "onMusicCollectionResult"
            THEN IF data.kind # "object" THEN Threw(data)
                 ELSE Done(Object(Put(data.fields, "result",
                                      [MusicCollectionInternal |->
                                          IF Has(data, "result") THEN data.fields.result
                                          ELSE Undefined])))
            ELSE Done(data)
      [] OTHER -> Done(data)

----------------------------------------------------------------------------
(* The generated process functions: `it(target, event, data)` calls the    *)
(* callback `event` of the target when the function has a case for that    *)
(* name and the target defines the callback.                               *)

\* whether process function fn has a case for the event name
Dispatches(fn, event) ==
    CASE fn = "processIRtcEngineEventHandler" ->
            event \in {"onStreamMessage", "onLocalVideoStats", "onJoinChannelSuccess"}
      [] fn = "processIDirectCdnStreamingEventHandler" ->
            event \in {"onDirectCdnStreamingStateChanged", "onDirectCdnStreamingStats"}
      [] fn = "processIMetadataObserver" -> event \in {"onMetadataReceived", "onMaxMetadataSize"}
      [] fn = "processIAudioEncodedFrameObserver" ->
            event \in {"onRecordAudioEncodedFrame", "onPlaybackAudioEncodedFrame",
                       "onMixedAudioEncodedFrame"}
      [] fn = "processIAudioSpectrumObserver" ->
            event \in {"onLocalAudioSpectrum", "onRemoteAudioSpectrum"}
      [] fn = "processIAudioFrameObserver" -> event \in {"onPlaybackAudioFrameBeforeMixing"}
      [] fn = "processIAudioFrameObserverBase" ->
            event \in {"onRecordAudioFrame", "onPlaybackAudioFrame", "onMixedAudioFrame",
                       "onEarMonitoringAudioFrame"}
      [] fn = "processIVideoFrameObserver" ->
            event \in {"onCaptureVideoFrame", "onPreEncodeVideoFrame", "onRenderVideoFrame"}
      [] fn = "processIVideoEncodedFrameObserver" -> event \in {"onEncodedVideoFrameReceived"}
      [] fn = "processIMediaPlayerSourceObserver" ->
            event \in {"onPlayerSourceStateChanged", "onPositionChanged"}
      [] fn = "processIAudioPcmFrameSink" -> event \in {"onFrame"}
      [] fn = "processIMediaPlayerVideoFrameObserver" -> event \in {"onFrame"}
      [] fn = "processIMediaRecorderObserver" ->
            event \in {"onRecorderStateChanged", "onRecorderInfoUpdated"}
      [] fn = "processIMusicContentCenterEventHandler" ->
            event \in {"onMusicChartsResult", "onMusicCollectionResult", "onLyricResult"}
      [] OTHER -> FALSE

\* whether `it(target, event, data)` runs a callback of the target: the client's
\* observers define every callback, the `{}` observer defines none
RunsCallback(fn, target, event) == Dispatches(fn, event) /\ target # EmptyObserver

----------------------------------------------------------------------------
(* The listener bus (DeviceEventEmitter, an eventemitter3 EventEmitter).   *)

\* event names a listener is attached under in the model
ListenNames ==
    {"onStreamMessage", "onLocalVideoStats", "onFrame", "onDirectCdnStreamingStateChanged",
     "onMetadataReceived", "onRecordAudioEncodedFrame", "onLocalAudioSpectrum"}

\* DeviceEventEmitter.listenerCount(name)
ListenerCount(name) == IF name \in DOMAIN bus THEN Len(bus[name]) ELSE 0

Min(S) == CHOOSE x \in S : \A y \in S : x <= y

\* a list of calls made in order, cut after the first call that raises
UpToThrow(calls) ==
    LET raising == {i \in 1..Len(calls) : calls[i].throws}
    IN  IF raising = {} THEN calls ELSE SubSeq(calls, 1, Min(raising))

Raises(calls) == \E i \in 1..Len(calls) : calls[i].throws

----------------------------------------------------------------------------
(* handleEvent and emitEvent.                                              *)

\* the lookup with String.prototype.includes in place of startsWith
FindProcessorAnywhere(event) ==
    LET matching == {i \in 1..Len(ProcessorValues) :
                        \E k \in 0..Len(event) :
                            StartsWith(DropFirst(event, k), ProcessorValues[i].suffix)}
    IN  IF matching = {} THEN 0 ELSE Min(matching)

\* Object.values(EVENT_PROCESSORS).find((it) => _event.startsWith(it.suffix)):
\* the position of the first matching descriptor, 0 for undefined
FindProcessor(event) ==
    LET matching == {i \in 1..Len(ProcessorValues) : StartsWith(event, ProcessorValues[i].suffix)}
    IN  IF matching = {} THEN 0 ELSE Min(matching)

\* the normalisation without the removal of 'Ex'
NormalizeEventKeepsEx(event, suffix) ==
    IF StartsWith(event, suffix) THEN DropFirst(event, Len(suffix)) ELSE event

\* _event.replace(new RegExp(`^${suffix}`, 'g'), '') and then, if the rest ends
\* with 'Ex', .replace(/Ex$/g, '')
NormalizeEvent(event, suffix) ==
    LET rest == IF StartsWith(event, suffix) THEN DropFirst(event, Len(suffix)) ELSE event
    IN  IF EndsWith(rest, "Ex") THEN DropLast(rest, 2) ELSE rest

\* the apply loop with the functions outside and the targets inside
ApplyCallsByFunction(list, func, event) ==
    LET targets == SelectSeq(list, LAMBDA v : v # Undefined)
        m == Len(targets)
    IN  UpToThrow([i \in 1..(m * Len(func)) |->
            LET fn == func[((i - 1) \div m) + 1]
                target == targets[((i - 1) % m) + 1]
            IN  [fn |-> fn, target |-> target,
                 runs |-> RunsCallback(fn, target, event),
                 throws |-> target \in Faulty /\ RunsCallback(fn, target, event)]])

\* handlers.map((value) => { if (value) processor.func.map((it) => it(value, _event, _data)) })
ApplyCalls(list, func, event) ==
    LET targets == SelectSeq(list, LAMBDA v : v # Undefined)
        n == Len(func)
    IN  UpToThrow([i \in 1..(Len(targets) * n) |->
            LET fn == func[((i - 1) % n) + 1]
                target == targets[((i - 1) \div n) + 1]
            IN  [fn |-> fn, target |-> target,
                 runs |-> RunsCallback(fn, target, event),
                 throws |-> target \in Faulty /\ RunsCallback(fn, target, event)]])

\* the emit with derived callbacks that do not look at the family kind
EmitCallsUnfiltered(eventType, key, func, data) ==
    LET attached == IF eventType \in DOMAIN bus THEN bus[eventType] ELSE << >>
        n == Len(func)
    IN  UpToThrow([i \in 1..(Len(attached) * n) |->
            LET fn == func[((i - 1) % n) + 1]
                cb == attached[((i - 1) \div n) + 1]
                runs == Dispatches(fn, callbacks[cb].eventType)
            IN  [cb |-> cb, fn |-> fn, listener |-> callbacks[cb].listener,
                 runs |-> runs,
                 throws |-> runs /\ callbacks[cb].listener \in Faulty]])

\* DeviceEventEmitter.emit(eventType, eventProcessor, data): every attached derived
\* callback, in order, returns at once unless eventProcessor.type(data) is its
\* family kind, and else hands its listener to every function of eventProcessor.func
EmitCalls(eventType, key, func, data) ==
    LET attached == IF eventType \in DOMAIN bus THEN bus[eventType] ELSE << >>
        n == Len(func)
    IN  UpToThrow([i \in 1..(Len(attached) * n) |->
            LET fn == func[((i - 1) % n) + 1]
                cb == attached[((i - 1) \div n) + 1]
                passes == Type(key, data) = callbacks[cb].kind
                runs == passes /\ Dispatches(fn, callbacks[cb].eventType)
            IN  [cb |-> cb, fn |-> fn, listener |-> callbacks[cb].listener,
                 runs |-> runs,
                 throws |-> runs /\ callbacks[cb].listener \in Faulty]])

\* what one handleEvent or emitEvent did
NoRun ==
    [family |-> "none", name |-> "", data |-> EmptyObject, targets |-> "none",
     preprocessCalls |-> 0, cleared |-> FALSE, applied |-> << >>, emitted |-> FALSE,
     delivered |-> << >>, thrown |-> FALSE]

\* emitEvent without its `if (eventProcessor.preprocess)` block
emitEventWithoutPreprocess(run, eventType, key, func, preprocess, data, buffers) ==
    IF ListenerCount(eventType) = 0 THEN [run EXCEPT !.data = data]
    ELSE LET calls == EmitCalls(eventType, key, func, data)
         IN  [run EXCEPT !.data = data, !.emitted = TRUE, !.delivered = calls,
                         !.thrown = Raises(calls)]

\* emitEvent without its `if (listenerCount(eventType) === 0) return`
emitEventUngated(run, eventType, key, func, preprocess, data, buffers) ==
    LET pre == IF preprocess
               THEN Preprocess(key, eventType, data,
                               IF buffers.defined THEN buffers ELSE Buffers(<< >>))
               ELSE Done(data)
        ran == [run EXCEPT !.data = pre.data,
                           !.preprocessCalls = @ + (IF preprocess THEN 1 ELSE 0)]
    IN  IF pre.thrown THEN [ran EXCEPT !.thrown = TRUE]
        ELSE LET calls == EmitCalls(eventType, key, func, pre.data)
             IN  [ran EXCEPT !.cleared = @ \/ preprocess, !.emitted = TRUE,
                             !.delivered = calls, !.thrown = Raises(calls)]

\* emitEvent(eventType, eventProcessor, data, buffers), continuing the run `run`;
\* preprocess tells whether eventProcessor.preprocess is defined
emitEvent(run, eventType, key, func, preprocess, data, buffers) ==
    IF ListenerCount(eventType) = 0 THEN [run EXCEPT !.data = data]
    ELSE LET pre == IF preprocess
                    THEN Preprocess(key, eventType, data,
                                    IF buffers.defined THEN buffers ELSE Buffers(<< >>))
                    ELSE Done(data)
             ran == [run EXCEPT !.data = pre.data,
                                !.preprocessCalls = @ + (IF preprocess THEN 1 ELSE 0)]
         IN  IF pre.thrown THEN [ran EXCEPT !.thrown = TRUE]
             ELSE LET calls == EmitCalls(eventType, key, func, pre.data)
                  IN  [ran EXCEPT !.cleared = @ \/ preprocess, !.emitted = TRUE,
                                  !.delivered = calls, !.thrown = Raises(calls)]

\* the copied descriptor keeps its preprocess after the call
PreprocessKept == TRUE

\* processor.preprocess = undefined, after the call of preprocess in handleEvent:
\* whether the copied descriptor still has a preprocess
PreprocessAfterCall == FALSE

\* handleEvent(event, data, buffers); named tells whether event is a string
handleEvent(named, event, data, buffers) ==
    IF ~named THEN [NoRun EXCEPT !.thrown = TRUE]
    ELSE LET found == FindProcessor(event)
         IN  IF found = 0 THEN NoRun
             ELSE
             LET processor == ProcessorValues[found]
                 preprocess == processor.key \in preprocess_defined
                 _event == NormalizeEvent(event, processor.suffix)
                 _data == ParseData(data)
                 handlers == Handlers(processor.key, _event, _data)
                 resolved == [NoRun EXCEPT !.family = processor.key, !.name = _event,
                                           !.data = _data,
                                           !.targets = IF handlers.thrown THEN "threw"
                                                       ELSE IF handlers.defined THEN "list"
                                                       ELSE "undefined"]
             IN  IF handlers.thrown THEN [resolved EXCEPT !.thrown = TRUE]
                 ELSE IF ~handlers.defined
                 THEN emitEvent(resolved, _event, processor.key, processor.func, preprocess,
                                _data, buffers)
                 ELSE
                 LET pre == IF preprocess THEN Preprocess(processor.key, _event, _data, buffers)
                            ELSE Done(_data)
                     ran == [resolved EXCEPT !.data = pre.data,
                                             !.preprocessCalls = IF preprocess THEN 1 ELSE 0,
                                             !.cleared = preprocess /\ ~pre.thrown]
                 IN  IF pre.thrown THEN [ran EXCEPT !.thrown = TRUE]
                     ELSE
                     LET calls == ApplyCalls(handlers.list, processor.func, _event)
                         applied == [ran EXCEPT !.applied = calls]
                     IN  IF Raises(calls) THEN [applied EXCEPT !.thrown = TRUE]
                         ELSE emitEvent(applied, _event, processor.key, processor.func,
                                        IF preprocess THEN PreprocessAfterCall ELSE FALSE,
                                        pre.data, buffers)

----------------------------------------------------------------------------
(* The outbound call path callIrisApi(funcName, params).                   *)
(*   - an argument object is a record: `fields` are its own data           *)
(*     properties; `hook` is its toJSON property: "none", "caller" (a      *)
(*     function of the caller that returns the object `json`) or           *)
(*     "identity" (the function callIrisApi installs, which returns        *)
(*     {...json, [key]: params[field]}); `cyclic` tells that               *)
(*     JSON.stringify raises on the data properties;                       *)
(*   - a JSON text sent to the boundary is the object it denotes (a        *)
(*     function from property name to value);                              *)
(*   - callApiResult is a record [kind, text] with kind "undefined",       *)
(*     "null" or "string".                                                 *)

\* Buffer.from('')
EmptyBuffer == ""

\* o.name, undefined when o has no such property
Get(o, name) == IF name \in DOMAIN o THEN o[name] ELSE Undefined

\* o without its property name
Without(o, name) == [k \in (DOMAIN o) \ {name} |-> o[k]]

\* o[name] = owner[property]; a property set to undefined is left out, as
\* JSON.stringify leaves it out
Assign(o, name, owner, property) ==
    IF property \in DOMAIN owner THEN Put(o, name, owner[property]) ELSE Without(o, name)

\* params.toJSON?.call(): what the toJSON of the object returns, {} standing
\* for the undefined of an object without toJSON (both spread to nothing)
CallToJSON(params) ==
    CASE params.hook = "caller" -> params.json
      [] params.hook = "identity" -> Assign(params.json, params.key, params.fields, params.field)
      [] OTHER -> EmptyFields

\* JSON.stringify(params): the toJSON of the object decides the text when there
\* is one, else the data properties are serialized, which raises on a cycle
Stringify(params) ==
    IF params.hook = "none"
    THEN [thrown |-> params.cyclic, json |-> params.fields]
    ELSE [thrown |-> FALSE, json |-> CallToJSON(params)]

\* params[field] = owner[field]; const json = params.toJSON?.call();
\* params.toJSON = function () { return { ...json, [key]: params[field] } }
InjectIdentity(params, field, key, owner) ==
    [params EXCEPT !.fields = Assign(@, field, owner, field), !.hook = "identity",
                   !.json = CallToJSON(params), !.field = field, !.key = key]

\* params[field] = owner[field];
\* params.toJSON = function () { return { [key]: params[field] } }
ReplaceByIdentity(params, field, key, owner) ==
    [params EXCEPT !.fields = Assign(@, field, owner, field), !.hook = "identity",
                   !.json = EmptyFields, !.field = field, !.key = key]

\* a boundary call whose count leaves out the undefined entries of the list
BoundaryCallCountingDefined(op, funcName, json, buffers) ==
    [op |-> op, funcName |-> funcName, json |-> json, buffers |-> buffers,
     length |-> Len(SelectSeq(buffers, LAMBDA b : b # Undefined))]

\* one call of the boundary
BoundaryCall(op, funcName, json, buffers) ==
    [op |-> op, funcName |-> funcName, json |-> json, buffers |-> buffers,
     length |-> Len(buffers)]

\* what the statements before the boundary call did: whether they raised, the
\* buffers pushed, the argument object, the boundary calls made, and whether
\* the method is the release
Prepared(params, buffers) ==
    [thrown |-> FALSE, buffers |-> buffers, params |-> params, trace |-> << >>,
     release |-> FALSE]

\* a TypeError raised by reading a property of undefined
TypeError(params) == [Prepared(params, << >>) EXCEPT !.thrown = TRUE]

\* case 'MediaEngine_pushVideoFrame': frame.buffer, then the empty buffers that
\* stand for frame.eglContext and frame.metadata_buffer, then frame.alphaBuffer,
\* then the empty buffer that stands for frame.d3d11_texture_2d
PushVideoFrameBuffers(frame) ==
    << Get(frame, "buffer"), EmptyBuffer, EmptyBuffer, Get(frame, "alphaBuffer"), EmptyBuffer >>

\* the environment is set up for every method of the engine
InitializesEnvForEngine(funcName) == StartsWith(funcName, "RtcEngine_")

\* case 'RtcEngine_initialize': AgoraRtcNg.InitializeEnv()
InitializesEnv(funcName) == funcName = "RtcEngine_initialize"

\* the statements of callIrisApi before the boundary call: the buffers of the
\* method, the identity of the calling instance, the environment set-up
Prepare(funcName, params, self) ==
    LET fields == params.fields
        frame == fields.frame
    IN  IF StartsWith(funcName, "MediaEngine_")
        THEN CASE funcName \in {"MediaEngine_pushAudioFrame", "MediaEngine_pushCaptureAudioFrame",
                                "MediaEngine_pushReverseAudioFrame",
                                "MediaEngine_pushDirectAudioFrame"} ->
                      IF "frame" \notin DOMAIN fields THEN TypeError(params)
                      ELSE Prepared(params, << Get(frame, "buffer") >>)
               [] funcName = "MediaEngine_pushVideoFrame" ->
                      IF "frame" \notin DOMAIN fields THEN TypeError(params)
                      ELSE Prepared(params, PushVideoFrameBuffers(frame))
               [] funcName = "MediaEngine_pushEncodedVideoImage" ->
                      Prepared(params, << Get(fields, "imageBuffer") >>)
               [] OTHER -> Prepared(params, << >>)
        ELSE IF StartsWith(funcName, "MediaPlayer_") \/ StartsWith(funcName, "MusicPlayer_")
        THEN IF "mediaPlayerId" \notin DOMAIN self THEN TypeError(params)
             ELSE Prepared(InjectIdentity(params, "mediaPlayerId", "playerId", self), << >>)
        ELSE IF StartsWith(funcName, "MediaRecorder_")
        THEN Prepared(InjectIdentity(params, "nativeHandle", "nativeHandle", self), << >>)
        ELSE IF StartsWith(funcName, "RtcEngine_")
        THEN CASE InitializesEnv(funcName) ->
                      [Prepared(params, << >>) EXCEPT
                          !.trace = << BoundaryCall("InitializeEnv", "", EmptyFields, << >>) >>]
               [] funcName = "RtcEngine_release" ->
                      [Prepared(params, << >>) EXCEPT !.release = TRUE]
               [] funcName = "RtcEngine_sendMetaData" ->
                      IF "metadata" \notin DOMAIN fields THEN TypeError(params)
                      ELSE Prepared(params, << Get(fields.metadata, "buffer") >>)
               [] funcName \in {"RtcEngine_sendStreamMessage", "RtcEngine_sendStreamMessageEx"}
                  ->
                      Prepared(params, << Get(fields, "data") >>)
               [] funcName = "RtcEngine_destroyMediaPlayer" ->
                      IF "media_player" \notin DOMAIN fields THEN TypeError(params)
                      ELSE Prepared(ReplaceByIdentity(params, "mediaPlayerId", "playerId",
                                                      fields.media_player), << >>)
               [] funcName = "RtcEngine_destroyMediaRecorder" ->
                      Prepared(ReplaceByIdentity(params, "nativeHandle", "nativeHandle", self),
                               << >>)
               [] OTHER -> Prepared(params, << >>)
        ELSE Prepared(params, << >>)

\* isDebuggable()
isDebuggable == AgoraEnv.enableLogging /\ AgoraEnv.enableDebugLogging

\* the outcome of a call: the boundary calls made, the log calls made, the
\* value returned, whether an exception left callIrisApi, and the argument
\* object after the call
Outcome(trace, logs, returned, params) ==
    [trace |-> trace, logs |-> logs, returned |-> returned, escaped |-> FALSE,
     params |-> params]

\* one call of logError, logWarn or logDebug
Log(level, detail) == [level |-> level, detail |-> detail]

\* catch (e) { if (isDebuggable()) logError('callApi', funcName, JSON.stringify(params), e)
\*             else logWarn('callApi', funcName, JSON.stringify(params), e) } return {}
\* the argument of the log call is evaluated inside the catch block
Caught(trace, params, debug) ==
    IF Stringify(params).thrown
    THEN [Outcome(trace, << >>, NoValue, params) EXCEPT !.escaped = TRUE]
    ELSE Outcome(trace, << Log(IF debug THEN "error" ELSE "warn", "exception") >>,
                 EmptyObject, params)

\* a test that takes only undefined for an empty result
HasResultUnlessUndefined(ret) == ret.kind # "undefined"

\* ret !== undefined && ret !== null && ret !== ''
HasResult(ret) == ret.kind = "string" /\ ret.text # ""

\* typeof retObj.result === 'number' && retObj.result < 0
NegativeResult(retObj) == Has(retObj, "result") /\ retObj.fields["result"] < 0

\* the statements after the boundary call: the result text is parsed and
\* returned, or { result: callApiReturnCode } is returned for an empty one
Decode(trace, params, reply, debug) ==
    IF HasResult(reply.result)
    THEN LET parsed == JSONparse(reply.result.text)
         IN  IF parsed.thrown THEN Caught(trace, params, debug)
             ELSE IF ~debug THEN Outcome(trace, << >>, parsed.value, params)
             ELSE IF parsed.null THEN Caught(trace, params, debug)
             ELSE Outcome(trace,
                          << Log(IF NegativeResult(parsed.value) THEN "error" ELSE "debug",
                                 "result") >>,
                          parsed.value, params)
    ELSE Outcome(trace, << Log(IF debug THEN "error" ELSE "warn", "code") >>,
                 Object([result |-> reply.code]), params)

\* callIrisApi.call(self, funcName, params), the boundary answering CallApi
\* with reply
callIrisApi(funcName, params, self, reply, debug) ==
    LET prepared == Prepare(funcName, params, self)
        text == Stringify(prepared.params)
        called == Append(prepared.trace,
                         BoundaryCall("CallApi", funcName, text.json, prepared.buffers))
    IN  IF prepared.thrown THEN Caught(prepared.trace, prepared.params, debug)
        ELSE IF text.thrown THEN Caught(prepared.trace, prepared.params, debug)
        ELSE IF reply.thrown THEN Caught(called, prepared.params, debug)
        ELSE IF prepared.release
        THEN Outcome(Append(called, BoundaryCall("ReleaseEnv", "", EmptyFields, << >>)),
                     << >>, NoValue, prepared.params)
        ELSE Decode(called, prepared.params, reply, debug)

\* the argument object {} and the state of no call
NoParams ==
    [fields |-> EmptyFields, hook |-> "none", json |-> EmptyFields, field |-> "", key |-> "",
     cyclic |-> FALSE]

NoReply == [thrown |-> FALSE, code |-> 0, result |-> [kind |-> "undefined", text |-> ""]]

\* a call of callIrisApi as observed: its arguments, the calling instance, the
\* boundary's reply, the debug mode, and its outcome
Called(funcName, params, self, reply, debug, outcome) ==
    [funcName |-> funcName, before |-> params, self |-> self, reply |-> reply,
     debug |-> debug, trace |-> outcome.trace, logs |-> outcome.logs,
     returned |-> outcome.returned, escaped |-> outcome.escaped, params |-> outcome.params]

NoCall == Called("", NoParams, EmptyFields, NoReply, FALSE, Outcome(<< >>, << >>, NoValue, NoParams))

----------------------------------------------------------------------------
(* The state after the modules are loaded.                                 *)

EmptyMap == [k \in {} |-> << >>]

NoEnvelope == [named |-> TRUE, event |-> "", data |-> "", buffers |-> NoBuffers]

\* the observation of an operation that handles no event; `before` is the list
\* of callbacks attached to eventType when the operation starts; `stale` is
\* history: the player ids and recorder handles whose observers the last release
\* cleared and that got no observer since
Observed(op, eventType, listener) ==
    [op |-> op, eventType |-> eventType, listener |-> listener, diagnostic |-> FALSE,
     before |-> IF eventType \in DOMAIN bus THEN bus[eventType] ELSE << >>,
     envelope |-> NoEnvelope, run |-> NoRun,
     logged |-> FALSE, escaped |-> FALSE, stale |-> last.stale, call |-> NoCall]

Init ==
    /\ event_handlers = << >>
    /\ direct_cdn_streaming_event_handler = << >>
    /\ metadata_observer = << >>
    /\ audio_encoded_frame_observers = << >>
    /\ audio_spectrum_observers = << >>
    /\ player_observers = [source |-> EmptyMap, audio_frame |-> EmptyMap,
                           video_frame |-> EmptyMap, audio_spectrum |-> EmptyMap]
    /\ recorder_observers = EmptyMap
    /\ media_engine_observers = [audio_frame |-> << >>, video_frame |-> << >>,
                                 video_encoded_frame |-> << >>]
    /\ music_event_handlers = << >>
    /\ preprocess_defined = InitialPreprocess
    /\ bus = [n \in ListenNames |-> << >>]
    /\ callbacks = << >>
    /\ agoraCallback = [l \in Listeners |-> 0]
    /\ removed = {}
    /\ AgoraEnv = [enableLogging |-> TRUE, enableDebugLogging |-> FALSE]
    /\ last = [op |-> "load", eventType |-> "", listener |-> Undefined, diagnostic |-> FALSE,
               before |-> << >>, envelope |-> NoEnvelope, run |-> NoRun,
               logged |-> FALSE, escaped |-> FALSE, stale |-> [players |-> {}, recorders |-> {}],
               call |-> NoCall]

----------------------------------------------------------------------------
(* Observer registries.                                                    *)

\* list.find((value) => value === observer) finds the observer
Holds(list, observer) == \E i \in 1..Len(list) : list[i] = observer

\* a registration that appends without looking for the observer
RegisterAlways(list, observer) == Append(list, observer)

\* if (!list.find((value) => value === observer)) list.push(observer)
Register(list, observer) ==
    IF \E i \in 1..Len(list) : list[i] = observer THEN list ELSE Append(list, observer)

\* the filter with === in place of !==
UnregisterOthers(list, observer) == SelectSeq(list, LAMBDA value : value = observer)

\* list.filter((value) => value !== observer)
Unregister(list, observer) == SelectSeq(list, LAMBDA value : value # observer)

RECURSIVE SumLen(_, _)
SumLen(map, keys) ==
    IF keys = {} THEN 0
    ELSE LET k == CHOOSE x \in keys : TRUE
         IN  Len(map[k]) + SumLen(map, keys \ {k})

\* the number of observers stored over all registries
Registered ==
    Len(event_handlers) + Len(direct_cdn_streaming_event_handler) + Len(metadata_observer)
    + Len(audio_encoded_frame_observers) + Len(audio_spectrum_observers)
    + SumLen(player_observers.source, DOMAIN player_observers.source)
    + SumLen(player_observers.audio_frame, DOMAIN player_observers.audio_frame)
    + SumLen(player_observers.video_frame, DOMAIN player_observers.video_frame)
    + SumLen(player_observers.audio_spectrum, DOMAIN player_observers.audio_spectrum)
    + Cardinality(DOMAIN recorder_observers)
    + Len(media_engine_observers.audio_frame) + Len(media_engine_observers.video_frame)
    + Len(media_engine_observers.video_encoded_frame) + Len(music_event_handlers)

\* RtcEngineExInternal.registerEventHandler(eventHandler)
registerEventHandler(eventHandler) ==
    /\ Registered < MaxRegistered \/ Holds(event_handlers, eventHandler)
    /\ event_handlers' = Register(event_handlers, eventHandler)
    /\ last' = Observed("registerEventHandler", "", eventHandler)
    /\ UNCHANGED << direct_cdn_streaming_event_handler, metadata_observer,
                    audio_encoded_frame_observers, audio_spectrum_observers, player_observers,
                    recorder_observers, media_engine_observers, music_event_handlers,
                    preprocess_defined, bus, callbacks, agoraCallback, removed,
                    AgoraEnv >>

\* RtcEngineExInternal.unregisterEventHandler(eventHandler)
unregisterEventHandler(eventHandler) ==
    /\ event_handlers' = Unregister(event_handlers, eventHandler)
    /\ last' = Observed("unregisterEventHandler", "", eventHandler)
    /\ UNCHANGED << direct_cdn_streaming_event_handler, metadata_observer,
                    audio_encoded_frame_observers, audio_spectrum_observers, player_observers,
                    recorder_observers, media_engine_observers, music_event_handlers,
                    preprocess_defined, bus, callbacks, agoraCallback, removed,
                    AgoraEnv >>

\* RtcEngineExInternal.startDirectCdnStreaming(eventHandler, publishUrl, options)
startDirectCdnStreaming(eventHandler) ==
    /\ Registered < MaxRegistered \/ Holds(direct_cdn_streaming_event_handler, eventHandler)
    /\ direct_cdn_streaming_event_handler' = Register(direct_cdn_streaming_event_handler, eventHandler)
    /\ last' = Observed("startDirectCdnStreaming", "", eventHandler)
    /\ UNCHANGED << event_handlers, metadata_observer,
                    audio_encoded_frame_observers, audio_spectrum_observers, player_observers,
                    recorder_observers, media_engine_observers, music_event_handlers,
                    preprocess_defined, bus, callbacks, agoraCallback, removed,
                    AgoraEnv >>

\* RtcEngineExInternal.registerMediaMetadataObserver(observer, type)
registerMediaMetadataObserver(observer) ==
    /\ Registered < MaxRegistered \/ Holds(metadata_observer, observer)
    /\ metadata_observer' = Register(metadata_observer, observer)
    /\ last' = Observed("registerMediaMetadataObserver", "", observer)
    /\ UNCHANGED << event_handlers, direct_cdn_streaming_event_handler,
                    audio_encoded_frame_observers, audio_spectrum_observers, player_observers,
                    recorder_observers, media_engine_observers, music_event_handlers,
                    preprocess_defined, bus, callbacks, agoraCallback, removed,
                    AgoraEnv >>

\* RtcEngineExInternal.registerAudioEncodedFrameObserver(config, observer)
registerAudioEncodedFrameObserver(observer) ==
    /\ Registered < MaxRegistered \/ Holds(audio_encoded_frame_observers, observer)
    /\ audio_encoded_frame_observers' = Register(audio_encoded_frame_observers, observer)
    /\ last' = Observed("registerAudioEncodedFrameObserver", "", observer)
    /\ UNCHANGED << event_handlers, direct_cdn_streaming_event_handler, metadata_observer,
                    audio_spectrum_observers, player_observers,
                    recorder_observers, media_engine_observers, music_event_handlers,
                    preprocess_defined, bus, callbacks, agoraCallback, removed,
                    AgoraEnv >>

\* MediaPlayerInternal.registerAudioFrameObserver(observer), of the player with
\* id playerId: the observer is appended to that player's list (created on first
\* use) unless it is already in it
registerPlayerAudioFrameObserver(playerId, observer) ==
    /\ \/ Registered < MaxRegistered
       \/ /\ playerId \in DOMAIN player_observers.audio_frame
          /\ Holds(player_observers.audio_frame[playerId], observer)
    /\ LET map == player_observers.audio_frame
           list == IF playerId \in DOMAIN map THEN map[playerId] ELSE << >>
       IN  player_observers' =
               [player_observers EXCEPT !.audio_frame =
                   [k \in (DOMAIN map) \cup {playerId} |->
                       IF k = playerId THEN Register(list, observer) ELSE map[k]]]
    /\ last' = [Observed("registerPlayerAudioFrameObserver", "", observer)
                   EXCEPT !.stale.players = @ \ {playerId}]
    /\ UNCHANGED << event_handlers, direct_cdn_streaming_event_handler, metadata_observer,
                    audio_encoded_frame_observers, audio_spectrum_observers,
                    recorder_observers, media_engine_observers, music_event_handlers,
                    preprocess_defined, bus, callbacks, agoraCallback, removed,
                    AgoraEnv >>

\* RtcEngineExInternal.unregisterMediaMetadataObserver(observer, type)
unregisterMediaMetadataObserver(observer) ==
    /\ metadata_observer' = Unregister(metadata_observer, observer)
    /\ last' = Observed("unregisterMediaMetadataObserver", "", observer)
    /\ UNCHANGED << event_handlers, direct_cdn_streaming_event_handler,
                    audio_encoded_frame_observers, audio_spectrum_observers, player_observers,
                    recorder_observers, media_engine_observers, music_event_handlers,
                    preprocess_defined, bus, callbacks, agoraCallback, removed,
                    AgoraEnv >>

\* RtcEngineExInternal.unregisterAudioEncodedFrameObserver(observer)
unregisterAudioEncodedFrameObserver(observer) ==
    /\ audio_encoded_frame_observers' = Unregister(audio_encoded_frame_observers, observer)
    /\ last' = Observed("unregisterAudioEncodedFrameObserver", "", observer)
    /\ UNCHANGED << event_handlers, direct_cdn_streaming_event_handler, metadata_observer,
                    audio_spectrum_observers, player_observers,
                    recorder_observers, media_engine_observers, music_event_handlers,
                    preprocess_defined, bus, callbacks, agoraCallback, removed,
                    AgoraEnv >>

\* RtcEngineExInternal.registerAudioSpectrumObserver(observer)
registerAudioSpectrumObserver(observer) ==
    /\ Registered < MaxRegistered \/ Holds(audio_spectrum_observers, observer)
    /\ audio_spectrum_observers' = Register(audio_spectrum_observers, observer)
    /\ last' = Observed("registerAudioSpectrumObserver", "", observer)
    /\ UNCHANGED << event_handlers, direct_cdn_streaming_event_handler, metadata_observer,
                    audio_encoded_frame_observers, player_observers,
                    recorder_observers, media_engine_observers, music_event_handlers,
                    preprocess_defined, bus, callbacks, agoraCallback, removed,
                    AgoraEnv >>

\* RtcEngineExInternal.unregisterAudioSpectrumObserver(observer)
unregisterAudioSpectrumObserver(observer) ==
    /\ audio_spectrum_observers' = Unregister(audio_spectrum_observers, observer)
    /\ last' = Observed("unregisterAudioSpectrumObserver", "", observer)
    /\ UNCHANGED << event_handlers, direct_cdn_streaming_event_handler, metadata_observer,
                    audio_encoded_frame_observers, player_observers,
                    recorder_observers, media_engine_observers, music_event_handlers,
                    preprocess_defined, bus, callbacks, agoraCallback, removed,
                    AgoraEnv >>

\* MediaEngineInternal.registerAudioFrameObserver(observer): the observer is
\* appended to the media engine's audio frame observers unless it is in them
registerMediaEngineAudioFrameObserver(observer) ==
    /\ Registered < MaxRegistered \/ Holds(media_engine_observers.audio_frame, observer)
    /\ media_engine_observers' =
           [media_engine_observers EXCEPT !.audio_frame = Register(@, observer)]
    /\ last' = Observed("registerMediaEngineAudioFrameObserver", "", observer)
    /\ UNCHANGED << event_handlers, direct_cdn_streaming_event_handler, metadata_observer,
                    audio_encoded_frame_observers, audio_spectrum_observers, player_observers,
                    recorder_observers, music_event_handlers,
                    preprocess_defined, bus, callbacks, agoraCallback, removed,
                    AgoraEnv >>

\* MediaRecorderInternal.setMediaRecorderObserver(callback), of the recorder with
\* the native handle: the observer becomes the entry of that handle
setMediaRecorderObserver(nativeHandle, observer) ==
    /\ nativeHandle \in DOMAIN recorder_observers \/ Registered < MaxRegistered
    /\ recorder_observers' =
           [k \in (DOMAIN recorder_observers) \cup {nativeHandle} |->
               IF k = nativeHandle THEN observer ELSE recorder_observers[k]]
    /\ last' = [Observed("setMediaRecorderObserver", "", observer)
                   EXCEPT !.stale.recorders = @ \ {nativeHandle}]
    /\ UNCHANGED << event_handlers, direct_cdn_streaming_event_handler, metadata_observer,
                    audio_encoded_frame_observers, audio_spectrum_observers, player_observers,
                    media_engine_observers, music_event_handlers,
                    preprocess_defined, bus, callbacks, agoraCallback, removed,
                    AgoraEnv >>

\* MusicContentCenterInternal.registerEventHandler(eventHandler): the handler is
\* appended to the music content center's handlers unless it is in them
registerMusicEventHandler(eventHandler) ==
    /\ Registered < MaxRegistered \/ Holds(music_event_handlers, eventHandler)
    /\ music_event_handlers' = Register(music_event_handlers, eventHandler)
    /\ last' = Observed("registerMusicEventHandler", "", eventHandler)
    /\ UNCHANGED << event_handlers, direct_cdn_streaming_event_handler, metadata_observer,
                    audio_encoded_frame_observers, audio_spectrum_observers, player_observers,
                    recorder_observers, media_engine_observers,
                    preprocess_defined, bus, callbacks, agoraCallback, removed,
                    AgoraEnv >>

\* MediaEngineInternal.release(), called by the engine's release as
\* this._media_engine.release(): the media engine's observer lists are emptied
MediaEngineRelease ==
    [audio_frame |-> << >>, video_frame |-> << >>, video_encoded_frame |-> << >>]

\* the player ids that have an observer in one of the player maps
PlayersObserved ==
    {p \in PlayerIds :
        \E field \in {"source", "audio_frame", "video_frame", "audio_spectrum"} :
            p \in DOMAIN player_observers[field] /\ Len(player_observers[field][p]) > 0}

\* a release that empties the engine-wide lists and the bus only
releaseEngineOnly ==
    /\ event_handlers' = << >>
    /\ direct_cdn_streaming_event_handler' = << >>
    /\ metadata_observer' = << >>
    /\ audio_encoded_frame_observers' = << >>
    /\ audio_spectrum_observers' = << >>
    /\ media_engine_observers' = MediaEngineRelease
    /\ bus' = [n \in DOMAIN bus |-> << >>]
    /\ last' = [Observed("release", "", Undefined)
                   EXCEPT !.stale = [players |-> PlayersObserved,
                                     recorders |-> DOMAIN recorder_observers]]
    /\ removed' = removed \cup {<< callbacks[c].eventType, callbacks[c].listener >> :
                                   c \in {c \in 1..Len(callbacks) :
                                             \E i \in 1..Len(bus[callbacks[c].eventType]) :
                                                 bus[callbacks[c].eventType][i] = c}}
    /\ UNCHANGED << player_observers, recorder_observers, music_event_handlers,
                    preprocess_defined, callbacks, agoraCallback, AgoraEnv >>

\* RtcEngineExInternal.release(sync): the five engine-wide lists are replaced by
\* empty lists, the four player maps and the recorder map are cleared, and
\* this.removeAllListeners() removes every callback of every event name; the
\* music content center's handlers are not touched
release ==
    /\ event_handlers' = << >>
    /\ direct_cdn_streaming_event_handler' = << >>
    /\ metadata_observer' = << >>
    /\ audio_encoded_frame_observers' = << >>
    /\ audio_spectrum_observers' = << >>
    /\ player_observers' = [source |-> EmptyMap, audio_frame |-> EmptyMap,
                            video_frame |-> EmptyMap, audio_spectrum |-> EmptyMap]
    /\ recorder_observers' = EmptyMap
    /\ media_engine_observers' = MediaEngineRelease
    /\ bus' = [n \in DOMAIN bus |-> << >>]
    /\ last' = [Observed("release", "", Undefined)
                   EXCEPT !.stale = [players |-> PlayersObserved,
                                     recorders |-> DOMAIN recorder_observers]]
    /\ removed' = removed \cup {<< callbacks[c].eventType, callbacks[c].listener >> :
                                   c \in {c \in 1..Len(callbacks) :
                                             \E i \in 1..Len(bus[callbacks[c].eventType]) :
                                                 bus[callbacks[c].eventType][i] = c}}
    /\ UNCHANGED << music_event_handlers, preprocess_defined, callbacks, agoraCallback,
                    AgoraEnv >>

----------------------------------------------------------------------------
(* The listener facade of RtcEngineExInternal.                             *)

\* checkers[interface].strictTest({ [eventType]: undefined }): whether eventType
\* is a callback of the interface
InterfaceHas(interface, eventType) ==
    CASE interface = "IRtcEngineEventHandler" ->
            eventType \in {"onStreamMessage", "onLocalVideoStats", "onJoinChannelSuccess"}
      [] interface = "IDirectCdnStreamingEventHandler" ->
            eventType \in {"onDirectCdnStreamingStateChanged", "onDirectCdnStreamingStats"}
      [] interface = "IMetadataObserver" ->
            eventType \in {"onMetadataReceived", "onMaxMetadataSize"}
      [] interface = "IAudioEncodedFrameObserver" ->
            eventType \in {"onRecordAudioEncodedFrame", "onPlaybackAudioEncodedFrame",
                           "onMixedAudioEncodedFrame"}
      [] interface = "IAudioSpectrumObserver" ->
            eventType \in {"onLocalAudioSpectrum", "onRemoteAudioSpectrum"}
      [] OTHER -> FALSE

\* the pre-check without the tests for an empty registry
_addListenerPreCheckAlways(eventType) ==
    [result |-> TRUE, diagnostic |-> FALSE,
     event_handlers |-> IF InterfaceHas("IRtcEngineEventHandler", eventType)
                        THEN Register(event_handlers, EmptyObserver) ELSE event_handlers,
     audio_spectrum_observers |-> IF InterfaceHas("IAudioSpectrumObserver", eventType)
                                  THEN Register(audio_spectrum_observers, EmptyObserver)
                                  ELSE audio_spectrum_observers]

\* _addListenerPreCheck(eventType): its return value, whether it reported a
\* diagnostic (console.error), and the two registries it may register `{}` in
_addListenerPreCheck(eventType) ==
    LET handlers == IF /\ InterfaceHas("IRtcEngineEventHandler", eventType)
                       /\ Len(event_handlers) = 0
                    THEN Register(event_handlers, EmptyObserver)
                    ELSE event_handlers
        refused == [result |-> FALSE, diagnostic |-> TRUE, event_handlers |-> handlers,
                    audio_spectrum_observers |-> audio_spectrum_observers]
    IN  IF /\ InterfaceHas("IDirectCdnStreamingEventHandler", eventType)
           /\ Len(direct_cdn_streaming_event_handler) = 0
        THEN refused
        ELSE IF /\ InterfaceHas("IMetadataObserver", eventType)
                /\ Len(metadata_observer) = 0
        THEN refused
        ELSE IF /\ InterfaceHas("IAudioEncodedFrameObserver", eventType)
                /\ Len(audio_encoded_frame_observers) = 0
        THEN refused
        ELSE [result |-> TRUE, diagnostic |-> FALSE, event_handlers |-> handlers,
              audio_spectrum_observers |->
                  IF /\ InterfaceHas("IAudioSpectrumObserver", eventType)
                     /\ Len(audio_spectrum_observers) = 0
                  THEN Register(audio_spectrum_observers, EmptyObserver)
                  ELSE audio_spectrum_observers]

\* an addListener that attaches nothing when the listener already has a callback
\* attached to the event name
addListenerOnce(eventType, listener) ==
    /\ Len(callbacks) < MaxCallbacks
    /\ LET check == _addListenerPreCheck(eventType)
           callback == Len(callbacks) + 1
           attached == \E i \in 1..Len(bus[eventType]) :
                          callbacks[bus[eventType][i]].listener = listener
       IN  /\ event_handlers' = check.event_handlers
           /\ audio_spectrum_observers' = check.audio_spectrum_observers
           /\ callbacks' = Append(callbacks, [eventType |-> eventType, listener |-> listener,
                                              kind |-> "IRtcEngine"])
           /\ agoraCallback' = [agoraCallback EXCEPT ![listener] = callback]
           /\ bus' = IF attached THEN bus ELSE [bus EXCEPT ![eventType] = Append(@, callback)]
           /\ last' = [Observed("addListener", eventType, listener)
                           EXCEPT !.diagnostic = check.diagnostic]
    /\ removed' = removed \ {<< eventType, listener >>}
    /\ UNCHANGED << direct_cdn_streaming_event_handler, metadata_observer,
                    audio_encoded_frame_observers, player_observers,
                    recorder_observers, media_engine_observers, music_event_handlers,
                    preprocess_defined, AgoraEnv >>

\* RtcEngineExInternal.addListener(eventType, listener): the pre-check is called
\* and its return value is not used; a new derived callback is stored on the
\* listener and attached to the bus
addListener(eventType, listener) ==
    /\ Len(callbacks) < MaxCallbacks
    /\ LET check == _addListenerPreCheck(eventType)
           callback == Len(callbacks) + 1
       IN  /\ event_handlers' = check.event_handlers
           /\ audio_spectrum_observers' = check.audio_spectrum_observers
           /\ callbacks' = Append(callbacks, [eventType |-> eventType, listener |-> listener,
                                              kind |-> "IRtcEngine"])
           /\ agoraCallback' = [agoraCallback EXCEPT ![listener] = callback]
           /\ bus' = [bus EXCEPT ![eventType] = Append(@, callback)]
           /\ last' = [Observed("addListener", eventType, listener)
                           EXCEPT !.diagnostic = check.diagnostic]
    /\ removed' = removed \ {<< eventType, listener >>}
    /\ UNCHANGED << direct_cdn_streaming_event_handler, metadata_observer,
                    audio_encoded_frame_observers, player_observers,
                    recorder_observers, media_engine_observers, music_event_handlers,
                    preprocess_defined, AgoraEnv >>

\* addListener(eventType, listener) of another facade (the media engine, a
\* media player): a derived callback that passes the events of the facade's
\* family kind is stored on the listener and attached to the same bus; the
\* facade's own pre-check is not part of this model
addListenerOf(kind, eventType, listener) ==
    /\ Len(callbacks) < MaxCallbacks
    /\ LET callback == Len(callbacks) + 1
       IN  /\ callbacks' = Append(callbacks, [eventType |-> eventType, listener |-> listener,
                                              kind |-> kind])
           /\ agoraCallback' = [agoraCallback EXCEPT ![listener] = callback]
           /\ bus' = [bus EXCEPT ![eventType] = Append(@, callback)]
           /\ last' = Observed("addListenerOf", eventType, listener)
    /\ removed' = removed \ {<< eventType, listener >>}
    /\ UNCHANGED << registries, preprocess_defined, AgoraEnv >>

\* a removal that looks for fn also when no fn is given
BusRemoveIdentical(attached, all, fn) == SelectSeq(attached, LAMBDA callback : callback # fn)

\* a removal without fn that removes only the callbacks of the engine facade
BusRemoveOwn(attached, all, fn) ==
    IF all THEN SelectSeq(attached, LAMBDA callback : callbacks[callback].kind # "IRtcEngine")
    ELSE SelectSeq(attached, LAMBDA callback : callback # fn)

\* DeviceEventEmitter.removeListener(eventType, fn), eventemitter3: without fn
\* every callback of the event is removed, else every callback identical to fn.
\* fn is 0 for a function that is no derived callback
BusRemove(attached, all, fn) ==
    IF all THEN << >> ELSE SelectSeq(attached, LAMBDA callback : callback # fn)

\* a removeListener that takes the {} observers out of the engine's registries
\* when it leaves the event name without callbacks
removeListenerUnregistering(eventType, listener) ==
    /\ bus' = [bus EXCEPT ![eventType] =
                  BusRemove(@, listener = Undefined,
                            IF listener = Undefined THEN 0 ELSE agoraCallback[listener])]
    /\ event_handlers' = IF bus'[eventType] = << >>
                         THEN SelectSeq(event_handlers, LAMBDA v : v # EmptyObserver)
                         ELSE event_handlers
    /\ audio_spectrum_observers' =
           IF bus'[eventType] = << >>
           THEN SelectSeq(audio_spectrum_observers, LAMBDA v : v # EmptyObserver)
           ELSE audio_spectrum_observers
    /\ removed' = removed \cup (IF listener = Undefined
                                THEN {<< eventType, l >> : l \in Listeners}
                                ELSE {<< eventType, listener >>})
    /\ last' = Observed("removeListener", eventType, listener)
    /\ UNCHANGED << direct_cdn_streaming_event_handler, metadata_observer,
                    audio_encoded_frame_observers, player_observers,
                    recorder_observers, media_engine_observers, music_event_handlers,
                    preprocess_defined, callbacks, agoraCallback, AgoraEnv >>

\* RtcEngineExInternal.removeListener(eventType, listener):
\* DeviceEventEmitter.removeListener(eventType, listener?.agoraCallback ?? listener)
removeListener(eventType, listener) ==
    /\ bus' = [bus EXCEPT ![eventType] =
                  BusRemove(@, listener = Undefined,
                            IF listener = Undefined THEN 0 ELSE agoraCallback[listener])]
    /\ removed' = removed \cup (IF listener = Undefined
                                THEN {<< eventType, l >> : l \in Listeners}
                                ELSE {<< eventType, listener >>})
    /\ last' = Observed("removeListener", eventType, listener)
    /\ UNCHANGED << registries, preprocess_defined, callbacks, agoraCallback, AgoraEnv >>

\* a removeAllListeners that clears every event name whatever eventType is
removeAllListenersOfAll(eventType) ==
    /\ bus' = [n \in DOMAIN bus |-> << >>]
    /\ removed' = removed \cup {<< n, l >> : n \in DOMAIN bus, l \in Listeners}
    /\ last' = Observed("removeAllListeners", eventType, Undefined)
    /\ UNCHANGED << registries, preprocess_defined, callbacks, agoraCallback, AgoraEnv >>

\* RtcEngineExInternal.removeAllListeners(eventType):
\* DeviceEventEmitter.removeAllListeners(eventType), eventemitter3: the callbacks
\* of the event name are removed, and those of every name when eventType is
\* undefined
removeAllListeners(eventType) ==
    /\ bus' = [n \in DOMAIN bus |->
                  IF eventType = Undefined \/ n = eventType THEN << >> ELSE bus[n]]
    /\ removed' = removed \cup
                      {<< n, l >> : n \in {m \in DOMAIN bus : eventType \in {Undefined, m}},
                                   l \in Listeners}
    /\ last' = Observed("removeAllListeners", eventType, Undefined)
    /\ UNCHANGED << registries, preprocess_defined, callbacks, agoraCallback, AgoraEnv >>

----------------------------------------------------------------------------
(* Outbound calls and the debug mode.                                      *)

\* setDebuggable(flag)
setDebuggable(flag) ==
    /\ AgoraEnv' = [enableLogging |-> flag, enableDebugLogging |-> flag]
    /\ last' = Observed("setDebuggable", "", Undefined)
    /\ UNCHANGED << registries, preprocess_defined, bus, callbacks, agoraCallback, removed >>

\* an instance calls callIrisApi.call(self, funcName, params) and the boundary
\* answers its CallApi with reply
Call(funcName, params, self, reply) ==
    /\ last' = [Observed("callIrisApi", "", Undefined) EXCEPT
                   !.call = Called(funcName, params, self, reply, isDebuggable,
                                   callIrisApi(funcName, params, self, reply, isDebuggable))]
    /\ UNCHANGED << registries, preprocess_defined, bus, callbacks, agoraCallback, removed,
                    AgoraEnv >>

----------------------------------------------------------------------------
(* The inbound event entry point.                                          *)

\* the callback without its try/catch
OnEventCallbackUncaught(run) == [logged |-> FALSE, escaped |-> run.thrown]

\* AgoraRtcNg.OnEvent('call_back_with_buffer', (...params) => {
\*   try { handleEvent(...params) } catch (e) { console.error(e) } }):
\* whether the exception of a run is logged, and whether it reaches the caller
OnEventCallback(run) == [logged |-> run.thrown, escaped |-> FALSE]

\* handleEvent clears preprocess on the table's own descriptor
ProcessorShared == FALSE

\* processor = { ...processor }: handleEvent works on a copy of the descriptor
ProcessorCopied == TRUE

\* the boundary runtime delivers one event; a preprocess cleared on a descriptor
\* that is no copy is cleared in the table
OnEvent(envelope) ==
    /\ LET run == handleEvent(envelope.named, envelope.event, envelope.data, envelope.buffers)
           outcome == OnEventCallback(run)
       IN  /\ last' = [Observed("OnEvent", "", Undefined)
                           EXCEPT !.envelope = envelope, !.run = run,
                                  !.logged = outcome.logged, !.escaped = outcome.escaped]
           /\ preprocess_defined' = IF ProcessorCopied \/ ~run.cleared THEN preprocess_defined
                                    ELSE preprocess_defined \ {run.family}
    /\ UNCHANGED << registries, bus, callbacks, agoraCallback, removed, AgoraEnv >>

----------------------------------------------------------------------------
(* The event router: events of the engine and player families, with        *)
(* payload texts of every shape.                                           *)

Envelope(event, data, buffers) ==
    [named |-> TRUE, event |-> event, data |-> data, buffers |-> buffers]

\* an event argument that is no string
Unnamed == [named |-> FALSE, event |-> "", data |-> "{}", buffers |-> NoBuffers]

Envelopes(events, texts, buffers) ==
    {Envelope(e, d, b) : e \in events, d \in texts, b \in buffers}

RouterEnvelopes ==
    Envelopes({"RtcEngineEventHandler_onStreamMessage", "RtcEngineEventHandler_onStreamMessageEx",
               "RtcEngineEventHandler_onLocalVideoStats",
               "RtcEngineEventHandler_onLocalVideoStatsEx"},
              {"{}", "null", "{oops", "7", "{\"connection\":{}}"},
              {Buffers(<< "b0" >>)})
    \cup Envelopes({"AudioPcmFrameSink_onFrame", "MediaPlayerVideoFrameObserver_onFrame"},
                   {"{}", "{\"playerId\":1,\"frame\":{}}", "{\"playerId\":2,\"frame\":{}}"},
                   {Buffers(<< "b0" >>)})
    \cup Envelopes({"RtcEngineEventHandler_onStreamMessage", "AudioPcmFrameSink_onFrame"},
                   {"{}", "{\"playerId\":1,\"frame\":{}}"}, {NoBuffers})
    \cup Envelopes({"onStreamMessage", "EventHandler_onLocalVideoStats",
                    "RtcEngineEventHandler_onStreamMessageExEx"}, {"{}"},
                   {Buffers(<< "b0" >>)})
    \cup {Unnamed}

RouterListenNames == {"onLocalVideoStats", "onFrame"}

RouterPlayers == {1}

Next ==
    \/ \E o \in Observers : registerEventHandler(o)
    \/ \E p \in RouterPlayers, o \in Observers : registerPlayerAudioFrameObserver(p, o)
    \/ \E n \in RouterListenNames, l \in Listeners : addListener(n, l)
    \/ \E e \in RouterEnvelopes : OnEvent(e)

Spec == Init /\ [][Next]_vars

----------------------------------------------------------------------------
(* Properties of the event router, checked under Spec.                     *)

\* the last operation handled an inbound event
Handled == last.op = "OnEvent"

\* the last operation handled an inbound event that matched a family
Routed == Handled /\ last.run.family # "none"

\* p is a prefix of s
IsPrefix(p, s) == \E n \in 0..Len(s) : SubSeq(s, 1, n) = p

\* the descriptors whose name-prefix is a prefix of the string
Matching(event) == {i \in 1..Len(ProcessorValues) : IsPrefix(ProcessorValues[i].suffix, event)}

\* the calls of a call list that ran a callback of their target
Ran(calls) == SelectSeq(calls, LAMBDA c : c.runs)

\* C1: in one handleEvent the preprocess of the family runs at most once, however
\* many observers are resolved and whether or not emitEvent runs after them.
C1_PreprocessAtMostOnce == Handled => last.run.preprocessCalls <= 1

\* two targets were applied, preprocess ran, and the event was then emitted to
\* an attached callback
C1_Witness ==
    /\ Handled
    /\ last.run.preprocessCalls = 1
    /\ Len(last.run.applied) >= 2
    /\ last.run.emitted
    /\ Len(last.run.delivered) >= 1

\* C2, as claimed: every event routed to a family whose descriptor defines a
\* preprocess runs that preprocess exactly once.
C2_PreprocessExactlyOnce ==
    (Routed /\ last.run.family \in preprocess_defined) => last.run.preprocessCalls = 1

\* C2, amended: preprocess runs exactly once when target resolution returns a
\* list of targets, with or without an attached listener, and when it returns
\* no targets while a callback is attached to the normalized name; it does not
\* run when there are no targets and no attached callback, or when target
\* resolution raises.
C2_PreprocessOnceIfConsumed ==
    (Routed /\ last.run.family \in preprocess_defined) =>
        last.run.preprocessCalls =
            IF \/ last.run.targets = "list"
               \/ (last.run.targets = "undefined" /\ Len(bus[last.run.name]) > 0)
            THEN 1 ELSE 0

\* no targets were resolved and preprocess ran in emitEvent
C2_Witness ==
    /\ Routed
    /\ last.run.family \in preprocess_defined
    /\ last.run.targets = "undefined"
    /\ last.run.preprocessCalls = 1
    /\ last.run.emitted

\* C3, as claimed: when target resolution returns no targets, no observer is
\* applied and no listener is called.
C3_NoTargetsDropped ==
    (Routed /\ last.run.targets = "undefined") =>
        /\ last.run.applied = << >>
        /\ Ran(last.run.delivered) = << >>

\* C6: the family of an event is the first descriptor whose prefix is a prefix of
\* the raw name; an event that matches none is dropped: nothing is parsed,
\* applied or emitted, and nothing is raised or logged.
C6_FamilyResolution ==
    (Handled /\ last.envelope.named) =>
        IF Matching(last.envelope.event) = {}
        THEN last.run = NoRun /\ ~last.logged
        ELSE last.run.family = ProcessorValues[Min(Matching(last.envelope.event))].key

\* an event that matches no family was dropped while an observer and a callback
\* for its name were in place
C6_Witness ==
    /\ Handled
    /\ last.envelope.event = "EventHandler_onLocalVideoStats"
    /\ last.run.family = "none"
    /\ Len(event_handlers) > 0
    /\ Len(bus["onLocalVideoStats"]) > 0

\* C7: there are 13 descriptors, no prefix is a prefix of another one, and so an
\* event matches at most one descriptor and is routed to that one only.
C7_PrefixDisjoint ==
    /\ Len(ProcessorValues) = 13
    /\ \A i, j \in 1..Len(ProcessorValues) :
           i # j => ~IsPrefix(ProcessorValues[i].suffix, ProcessorValues[j].suffix)
    /\ (Handled /\ last.envelope.named) =>
           /\ Cardinality(Matching(last.envelope.event)) <= 1
           /\ \A i \in 1..Len(ProcessorValues) :
                  last.run.family = ProcessorValues[i].key => Matching(last.envelope.event) = {i}

\* an event whose name contains the prefix of another family after its own
C7_Witness ==
    /\ Handled
    /\ last.envelope.event = "MediaPlayerVideoFrameObserver_onFrame"
    /\ last.run.family = "IMediaPlayerVideoFrameObserver"

\* the text after the family prefix of the last handled event
Rest ==
    LET suffix == ProcessorValues[Min(Matching(last.envelope.event))].suffix
    IN  SubSeq(last.envelope.event, Len(suffix) + 1, Len(last.envelope.event))

\* the last two characters of the string are 'Ex'
HasEx(s) == Len(s) >= 2 /\ SubSeq(s, Len(s) - 1, Len(s)) = "Ex"

\* C8: the normalized name is the raw name without the family prefix and, when
\* what remains ends with 'Ex', without that one 'Ex'; an event <prefix>XEx of a
\* callback name X is handled as the event <prefix>X with the same payload and
\* buffers is: same targets, same buffer splice, same calls, same republish.
C8_NameNormalization ==
    Routed =>
        /\ IF HasEx(Rest) THEN Rest = last.run.name \o "Ex" ELSE Rest = last.run.name
        /\ (HasEx(Rest) /\ ~HasEx(last.run.name)) =>
               last.run = handleEvent(TRUE,
                                      ProcessorValues[Min(Matching(last.envelope.event))].suffix
                                          \o last.run.name,
                                      last.envelope.data, last.envelope.buffers)

\* onStreamMessageEx was applied to an observer under the name onStreamMessage,
\* with the first buffer spliced into the payload
C8_Witness ==
    /\ Routed
    /\ last.envelope.event = "RtcEngineEventHandler_onStreamMessageEx"
    /\ last.run.name = "onStreamMessage"
    /\ Len(last.run.applied) >= 1
    /\ Has(last.run.data, "data")
    /\ last.run.data.fields["data"] = "b0"

\* the payload text of the last handled event is no JSON text, or is the text
\* of null
Malformed == JSONparse(last.envelope.data).thrown \/ JSONparse(last.envelope.data).null

\* C9: an event whose payload text does not parse, or parses to null, is handled
\* as the same event with the payload text '{}': targets are resolved, observers
\* applied and the event republished with the empty object, and the parse raises
\* nothing.
C9_MalformedPayload ==
    (Routed /\ Malformed) =>
        /\ last.run = handleEvent(TRUE, last.envelope.event, "{}", last.envelope.buffers)
        /\ last.run.targets # "threw"

\* an event with an unparsable payload was applied to an observer and nothing
\* was raised
C9_Witness ==
    /\ Routed
    /\ last.envelope.data = "{oops"
    /\ Len(last.run.applied) >= 1
    /\ ~last.run.thrown
    /\ ~last.logged

\* C10: whatever is raised while an event is handled, by the family lookup,
\* the target resolution, preprocess, an observer or a listener callback, is
\* caught by the entry point and logged; nothing reaches the boundary runtime.
C10_NeverThrows ==
    Handled => (~last.escaped /\ (last.logged <=> last.run.thrown))

\* a listener callback raised and the entry point logged it
C10_Witness ==
    /\ Handled
    /\ \E i \in 1..Len(last.run.delivered) : last.run.delivered[i].throws
    /\ last.run.thrown
    /\ last.logged
    /\ ~last.escaped

----------------------------------------------------------------------------
(* The strict categories of the listener pre-check: listeners of the direct *)
(* CDN streaming, metadata and encoded audio frame callbacks.              *)

PrecheckListenNames ==
    {"onDirectCdnStreamingStateChanged", "onMetadataReceived", "onRecordAudioEncodedFrame"}

PrecheckEnvelopes ==
    Envelopes({"DirectCdnStreamingEventHandler_onDirectCdnStreamingStateChanged",
               "MetadataObserver_onMetadataReceived",
               "AudioEncodedFrameObserver_onRecordAudioEncodedFrame"},
              {"{}"}, {Buffers(<< "b0" >>)})

NextPrecheck ==
    \/ \E o \in Observers : startDirectCdnStreaming(o)
    \/ \E o \in Observers : registerMediaMetadataObserver(o)
    \/ \E o \in Observers : registerAudioEncodedFrameObserver(o)
    \/ \E n \in PrecheckListenNames, l \in Listeners : addListener(n, l)
    \/ \E e \in PrecheckEnvelopes : OnEvent(e)

SpecPrecheck == Init /\ [][NextPrecheck]_vars

\* C4, as claimed: an addListener whose pre-check reports a diagnostic leaves
\* the callbacks attached to the event name as they were.
C4_StrictRefusesAttachment ==
    (last.op = "addListener" /\ last.diagnostic) => bus[last.eventType] = last.before

----------------------------------------------------------------------------
(* Adding and removing listeners of the engine callbacks.                  *)

ListenersListenNames == {"onStreamMessage", "onLocalVideoStats"}

ListenersEnvelopes ==
    Envelopes({"RtcEngineEventHandler_onStreamMessage",
               "RtcEngineEventHandler_onLocalVideoStats"},
              {"{}"}, {Buffers(<< "b0" >>)})

NextListeners ==
    \/ \E n \in ListenersListenNames, l \in Listeners : addListener(n, l)
    \/ \E n \in ListenersListenNames, l \in Listeners \cup {Undefined} : removeListener(n, l)
    \/ \E e \in ListenersEnvelopes : OnEvent(e)

SpecListeners == Init /\ [][NextListeners]_vars

\* C5, as claimed: a listener removed from an event name, and not added to it
\* again, is not called by an event of that name.
C5_RemoveListenerEffective ==
    Handled =>
        \A i \in 1..Len(last.run.delivered) :
            last.run.delivered[i].runs =>
                << last.run.name, last.run.delivered[i].listener >> \notin removed

\* how many calls of the last emit ran a callback of the listener
Invocations(listener) ==
    Cardinality({i \in 1..Len(last.run.delivered) :
                    /\ last.run.delivered[i].listener = listener
                    /\ last.run.delivered[i].runs})

\* how many callbacks attached to the event name were derived from the listener
Subscriptions(eventType, listener) ==
    Cardinality({i \in 1..Len(bus[eventType]) :
                    callbacks[bus[eventType][i]].listener = listener})

\* C20, as claimed: an emitted event calls every listener once for each of its
\* callbacks attached to the event name.
C20_OncePerSubscription ==
    (Handled /\ last.run.emitted) =>
        \A l \in Listeners : Invocations(l) = Subscriptions(last.run.name, l)

\* every addListener attaches one more callback to the event name, whether or
\* not the listener already has one there; an emitted event calls the attached
\* callbacks in order, each once, and an emit that runs to its end has called
\* every listener once for each of its callbacks attached to the name
C20_OneSubscriptionPerAddListener ==
    /\ last.op = "addListener" =>
           /\ bus[last.eventType] = Append(last.before, Len(callbacks))
           /\ callbacks[Len(callbacks)].listener = last.listener
    /\ (Handled /\ last.run.emitted) =>
           LET attached == bus[last.run.name]
               calls == last.run.delivered
           IN  /\ Len(calls) <= Len(attached)
               /\ \A i \in 1..Len(calls) :
                      /\ calls[i].cb = attached[i]
                      /\ calls[i].listener = callbacks[attached[i]].listener
                      /\ calls[i].runs
               /\ ~Raises(calls) =>
                      \A l \in Listeners :
                          Invocations(l) = Subscriptions(last.run.name, l)

\* a listener added twice to an event name: an event of the name called it twice
C20_Witness ==
    /\ Handled
    /\ last.run.emitted
    /\ last.run.name = "onStreamMessage"
    /\ Subscriptions("onStreamMessage", "f") = 2
    /\ Invocations("f") = 2

----------------------------------------------------------------------------
(* The apply loop: families with one and with two process functions, and a *)
(* recorder whose handle may have no observer.                             *)

RecorderHandles == {"h1"}

ApplyEnvelopes ==
    Envelopes({"AudioFrameObserver_onRecordAudioFrame"}, {"{}", "{\"audioFrame\":{}}"},
              {Buffers(<< "b0" >>)})
    \cup Envelopes({"RtcEngineEventHandler_onStreamMessage"}, {"{}"}, {Buffers(<< "b0" >>)})
    \cup Envelopes({"MediaRecorderObserver_onRecorderStateChanged"},
                   {"{}", "{\"nativeHandle\":\"h1\"}"}, {Buffers(<< "b0" >>)})

ApplyListenNames == {"onStreamMessage"}

NextApply ==
    \/ \E o \in Observers : registerEventHandler(o)
    \/ \E o \in Observers : registerMediaEngineAudioFrameObserver(o)
    \/ \E h \in RecorderHandles, o \in Observers : setMediaRecorderObserver(h, o)
    \/ \E n \in ApplyListenNames, l \in Listeners : addListener(n, l)
    \/ \E e \in ApplyEnvelopes : OnEvent(e)

SpecApply == Init /\ [][NextApply]_vars

\* the targets the family of the last handled event resolves for its payload
ResolvedList ==
    Handlers(last.run.family, last.run.name, ParseData(last.envelope.data)).list

\* the (target, function) pairs of an apply loop over the list, targets outside
RECURSIVE ExpectedPairs(_, _)
ExpectedPairs(list, func) ==
    IF list = << >> THEN << >>
    ELSE (IF Head(list) = Undefined THEN << >>
          ELSE [j \in 1..Len(func) |-> << Head(list), func[j] >>])
         \o ExpectedPairs(Tail(list), func)

\* the (target, function) pairs of the calls made, in the order made
AppliedPairs == [i \in 1..Len(last.run.applied) |->
                    << last.run.applied[i].target, last.run.applied[i].fn >>]

\* the process functions of the family of the last handled event
FamilyFunc ==
    (CHOOSE d \in {ProcessorValues[i] : i \in 1..Len(ProcessorValues)} :
        d.key = last.run.family).func

\* C11, as claimed: the apply calls are the (target, function) pairs of the
\* resolved list, undefined targets left out, target by target and function by
\* function in the descriptor's order, every pair called exactly once.
C11_EveryPairOnce ==
    (Routed /\ last.run.targets = "list") =>
        AppliedPairs = ExpectedPairs(ResolvedList, FamilyFunc)

\* the order of the apply calls: the calls made are a beginning of the list of
\* pairs, in its order and without repetition, and the whole list when the loop
\* runs to its end
C11_ApplyOrder ==
    (Routed /\ last.run.targets = "list") =>
        LET expected == ExpectedPairs(ResolvedList, FamilyFunc)
        IN  /\ Len(AppliedPairs) <= Len(expected)
            /\ AppliedPairs = SubSeq(expected, 1, Len(AppliedPairs))
            /\ (~last.run.thrown \/ last.run.emitted) => AppliedPairs = expected

\* two targets of a family with two process functions: four calls
C11_Witness ==
    /\ Routed
    /\ last.run.family = "IAudioFrameObserver"
    /\ Len(media_engine_observers.audio_frame) = 2
    /\ Len(last.run.applied) = 4
    /\ \E i \in 1..4 : last.run.applied[i].runs

\* C12, as claimed: when a call of the apply loop raises, every target of the
\* resolved list that is not undefined has still been called.
C12_SiblingsStillInvoked ==
    (Routed /\ last.run.targets = "list" /\ Raises(last.run.applied)) =>
        \A k \in 1..Len(ResolvedList) :
            ResolvedList[k] # Undefined =>
                \E i \in 1..Len(last.run.applied) : last.run.applied[i].target = ResolvedList[k]

\* C13: an inbound event that raises changes no observer registry, no bus
\* subscription and no descriptor of the table.
C13_FailingEventIsolated ==
    [][(last'.op = "OnEvent" /\ last'.run.thrown) =>
          /\ registries' = registries
          /\ bus' = bus
          /\ preprocess_defined' = preprocess_defined]_vars

\* an event raised after its preprocess ran, with observers registered and a
\* callback attached, and the table still holds the family's preprocess
C13_Witness ==
    /\ Handled
    /\ last.run.thrown
    /\ last.logged
    /\ last.run.cleared
    /\ last.run.family \in preprocess_defined
    /\ Len(event_handlers) >= 1
    /\ Len(bus["onStreamMessage"]) >= 1

----------------------------------------------------------------------------
(* The engine-wide registries: registering, unregistering, the listener    *)
(* pre-check of the permissive categories, and release.                    *)

RegistriesListenNames == {"onLocalVideoStats", "onLocalAudioSpectrum"}

RegistriesListeners == {"f"}

NextRegistries ==
    \/ \E o \in Observers : registerEventHandler(o)
    \/ \E o \in Observers : unregisterEventHandler(o)
    \/ \E o \in Observers : startDirectCdnStreaming(o)
    \/ \E o \in Observers : registerMediaMetadataObserver(o)
    \/ \E o \in Observers : unregisterMediaMetadataObserver(o)
    \/ \E o \in Observers : registerAudioEncodedFrameObserver(o)
    \/ \E o \in Observers : unregisterAudioEncodedFrameObserver(o)
    \/ \E o \in Observers : registerAudioSpectrumObserver(o)
    \/ \E o \in Observers : unregisterAudioSpectrumObserver(o)
    \/ \E n \in RegistriesListenNames, l \in RegistriesListeners : addListener(n, l)
    \/ release

SpecRegistries == Init /\ [][NextRegistries]_vars

\* the engine-wide registries, each with the operations that register in it and
\* unregister from it
EngineLists ==
    << [list |-> event_handlers, register |-> "registerEventHandler",
        unregister |-> "unregisterEventHandler"],
       [list |-> direct_cdn_streaming_event_handler, register |-> "startDirectCdnStreaming",
        unregister |-> "none"],
       [list |-> metadata_observer, register |-> "registerMediaMetadataObserver",
        unregister |-> "unregisterMediaMetadataObserver"],
       [list |-> audio_encoded_frame_observers, register |-> "registerAudioEncodedFrameObserver",
        unregister |-> "unregisterAudioEncodedFrameObserver"],
       [list |-> audio_spectrum_observers, register |-> "registerAudioSpectrumObserver",
        unregister |-> "unregisterAudioSpectrumObserver"] >>

Elements(list) == {list[i] : i \in 1..Len(list)}

NoDuplicates(list) == \A i, j \in 1..Len(list) : i # j => list[i] # list[j]

\* C14: whatever operation is made, no engine-wide registry holds an observer
\* twice afterwards, and a registration of an observer that is in the registry
\* leaves the registry as it was.
C14_NoDuplicateObservers ==
    [][\A k \in 1..Len(EngineLists) :
          /\ NoDuplicates(EngineLists'[k].list)
          /\ (/\ last'.op = EngineLists[k].register
              /\ last'.listener \in Elements(EngineLists[k].list))
             => EngineLists'[k].list = EngineLists[k].list]_vars

\* an observer was registered in a registry that held it and another one
C14_Witness ==
    /\ last.op = "registerAudioSpectrumObserver"
    /\ last.listener = "o1"
    /\ audio_spectrum_observers = << "o1", "o2" >>

\* what unregistering observer from the list `before` leaves in `after`
Unregistered(before, after, observer) ==
    /\ observer \notin Elements(after)
    /\ Elements(after) = Elements(before) \ {observer}
    /\ Len(after) = Cardinality({i \in 1..Len(before) : before[i] # observer})
    /\ \A j1, j2 \in 1..Len(after) :
           j1 < j2 => \E i1, i2 \in 1..Len(before) :
                          i1 < i2 /\ before[i1] = after[j1] /\ before[i2] = after[j2]
    /\ observer \notin Elements(before) => after = before

\* C15: an unregister operation leaves its registry without the observer, with
\* every other entry, in the order they had; a registry that did not hold the
\* observer is left as it was.
C15_Unregister ==
    [][\A k \in 1..Len(EngineLists) :
          last'.op = EngineLists[k].unregister =>
              Unregistered(EngineLists[k].list, EngineLists'[k].list, last'.listener)]_vars

\* the first of two event handlers was unregistered and the second one is kept
C15_Witness ==
    /\ last.op = "unregisterEventHandler"
    /\ last.listener = "o1"
    /\ event_handlers = << "o2" >>

\* C18: addListener for a callback of the engine event handler, or of the audio
\* spectrum observer, puts one {} observer in that category's registry when the
\* registry is empty and leaves the registry as it is otherwise; in both cases
\* one new callback of the listener is attached at the end of the event name's
\* subscriptions.
C18_PermissiveAutoRegisters ==
    [][last'.op = "addListener" =>
          /\ last'.eventType \in {"onLocalVideoStats", "onStreamMessage"} =>
                 event_handlers' = IF event_handlers = << >> THEN << EmptyObserver >>
                                   ELSE event_handlers
          /\ last'.eventType \in {"onLocalAudioSpectrum"} =>
                 audio_spectrum_observers' =
                     IF audio_spectrum_observers = << >> THEN << EmptyObserver >>
                     ELSE audio_spectrum_observers
          /\ last'.eventType \in {"onLocalVideoStats", "onStreamMessage", "onLocalAudioSpectrum"} =>
                 /\ Len(callbacks') = Len(callbacks) + 1
                 /\ callbacks'[Len(callbacks')].listener = last'.listener
                 /\ bus'[last'.eventType] = Append(bus[last'.eventType], Len(callbacks'))]_vars

\* a listener of an audio spectrum callback was attached while the registry was
\* empty: the registry holds the one {} observer
C18_Witness ==
    /\ last.op = "addListener"
    /\ last.eventType = "onLocalAudioSpectrum"
    /\ audio_spectrum_observers = << EmptyObserver >>
    /\ event_handlers = << "o1" >>
    /\ Len(bus["onLocalAudioSpectrum"]) = 1

----------------------------------------------------------------------------
(* Release: registries of the engine, of a player, of a recorder and of    *)
(* the music content center, with events for each after the release.       *)

ReleaseObservers == {"o1"}

ReleasePlayers == {1}

ReleaseListenNames == {"onFrame"}

ReleaseListeners == {"f"}

ReleaseEnvelopes ==
    Envelopes({"AudioPcmFrameSink_onFrame"}, {"{\"playerId\":1,\"frame\":{}}"},
              {Buffers(<< "b0" >>)})
    \cup Envelopes({"MediaRecorderObserver_onRecorderStateChanged"},
                   {"{\"nativeHandle\":\"h1\"}"}, {Buffers(<< "b0" >>)})
    \cup Envelopes({"MusicContentCenterEventHandler_onLyricResult",
                    "RtcEngineEventHandler_onStreamMessage"}, {"{}"}, {Buffers(<< "b0" >>)})

NextRelease ==
    \/ \E o \in ReleaseObservers : registerEventHandler(o)
    \/ \E p \in ReleasePlayers, o \in ReleaseObservers : registerPlayerAudioFrameObserver(p, o)
    \/ \E h \in RecorderHandles, o \in ReleaseObservers : setMediaRecorderObserver(h, o)
    \/ \E o \in ReleaseObservers : registerMusicEventHandler(o)
    \/ \E n \in ReleaseListenNames, l \in ReleaseListeners : addListener(n, l)
    \/ release
    \/ \E e \in ReleaseEnvelopes : OnEvent(e)

SpecRelease == Init /\ [][NextRelease]_vars

\* C16, as claimed: after release every registry the router consults is empty
\* and no callback is attached to any event name.
C16_FullTeardown ==
    last.op = "release" =>
        /\ event_handlers = << >>
        /\ direct_cdn_streaming_event_handler = << >>
        /\ metadata_observer = << >>
        /\ audio_encoded_frame_observers = << >>
        /\ audio_spectrum_observers = << >>
        /\ \A field \in DOMAIN player_observers : DOMAIN player_observers[field] = {}
        /\ DOMAIN recorder_observers = {}
        /\ \A field \in DOMAIN media_engine_observers : media_engine_observers[field] = << >>
        /\ music_event_handlers = << >>
        /\ \A n \in DOMAIN bus : bus[n] = << >>

\* the families whose targets are looked up by a player id or a recorder handle
InstanceScoped ==
    {"IMediaPlayerSourceObserver", "IAudioPcmFrameSink", "IMediaPlayerVideoFrameObserver",
     "IAudioSpectrumObserver", "IMediaRecorderObserver"}

\* the last handled event names a player or a recorder whose observers the last
\* release cleared and that got no observer since
StaleInstance ==
    LET data == ParseData(last.envelope.data)
    IN  /\ Routed
        /\ last.run.family \in InstanceScoped
        /\ IF last.run.family = "IMediaRecorderObserver"
           THEN Has(data, "nativeHandle") /\ data.fields.nativeHandle \in last.stale.recorders
           ELSE Has(data, "playerId") /\ data.fields.playerId \in last.stale.players

----------------------------------------------------------------------------
(* The family kind of an event: audio spectrum events of the engine        *)
(* (playerId 0) and of a player, and a player's PCM frames.                *)

KindListenNames == {"onLocalAudioSpectrum", "onFrame"}

KindEnvelopes ==
    Envelopes({"AudioSpectrumObserver_onLocalAudioSpectrum"},
              {"{}", "{\"playerId\":0}", "{\"playerId\":1,\"frame\":{}}"},
              {Buffers(<< "b0" >>)})
    \cup Envelopes({"AudioPcmFrameSink_onFrame"}, {"{\"playerId\":1,\"frame\":{}}"},
                   {Buffers(<< "b0" >>)})

NextKind ==
    \/ \E o \in Observers : registerAudioSpectrumObserver(o)
    \/ \E n \in KindListenNames, l \in Listeners : addListener(n, l)
    \/ \E e \in KindEnvelopes : OnEvent(e)

SpecKind == Init /\ [][NextKind]_vars

\* the last handled event is an event of the engine: of a family of the engine,
\* or an audio spectrum event whose payload has playerId 0
EngineEvent ==
    LET data == ParseData(last.envelope.data)
    IN  \/ last.run.family \in {"IAudioEncodedFrameObserver", "IMetadataObserver",
                                "IDirectCdnStreamingEventHandler", "IRtcEngineEventHandler"}
        \/ /\ last.run.family = "IAudioSpectrumObserver"
           /\ data.kind = "object"
           /\ "playerId" \in DOMAIN data.fields
           /\ data.fields["playerId"] = 0

\* C19: a listener attached by the engine's addListener is called for an event
\* on the bus only if the event is an event of the engine; the listeners of
\* the name of an event of another kind are all passed over.
C19_FamilyKindFilter ==
    (Routed /\ last.run.emitted) =>
        /\ ~EngineEvent => Ran(last.run.delivered) = << >>
        /\ (EngineEvent /\ last.run.name = "onLocalAudioSpectrum") =>
               \A i \in 1..Len(last.run.delivered) : last.run.delivered[i].runs

\* an audio spectrum event of a player was emitted to the two callbacks attached
\* to its name and no listener was called
C19_Witness ==
    /\ Routed
    /\ "onLocalAudioSpectrum" \in DOMAIN bus
    /\ Len(bus["onLocalAudioSpectrum"]) = 2
    /\ last.run.family = "IAudioSpectrumObserver"
    /\ last.run.emitted
    /\ ~EngineEvent
    /\ Len(last.run.delivered) >= 1
    /\ Ran(last.run.delivered) = << >>

----------------------------------------------------------------------------
(* Removing listeners: of one listener, of an event name, of every name.   *)

RemoveListenNames == {"onStreamMessage", "onLocalVideoStats"}

RemoveEnvelopes ==
    Envelopes({"RtcEngineEventHandler_onStreamMessage",
               "RtcEngineEventHandler_onLocalVideoStats"},
              {"{}"}, {Buffers(<< "b0" >>)})

NextRemove ==
    \/ \E n \in RemoveListenNames, l \in Listeners : addListener(n, l)
    \/ \E n \in RemoveListenNames, l \in Listeners \cup {Undefined} : removeListener(n, l)
    \/ \E n \in RemoveListenNames \cup {Undefined} : removeAllListeners(n)
    \/ \E e \in RemoveEnvelopes : OnEvent(e)

SpecRemove == Init /\ [][NextRemove]_vars

\* the callbacks of a list that were not derived from the listener
NotBoundTo(listener, attached) ==
    SelectSeq(attached, LAMBDA callback : callbacks[callback].listener # listener)

\* the step is a removeListener(name, cb) with a callback
RemovesListener == last'.op = "removeListener" /\ last'.listener # Undefined

\* C21, as claimed: removeListener(name, cb) leaves attached every callback of
\* the name that is not bound to cb and every callback of the other names, and
\* an event emitted after a removal calls every callback attached to its name.
C21_RemoveOnlyBound ==
    /\ [][RemovesListener =>
             /\ NotBoundTo(last'.listener, bus'[last'.eventType])
                    = NotBoundTo(last'.listener, bus[last'.eventType])
             /\ \A n \in DOMAIN bus : n # last'.eventType => bus'[n] = bus[n]]_vars
    /\ []((Handled /\ last.run.emitted /\ removed # {}) =>
             \A i \in 1..Len(bus[last.run.name]) :
                 \E j \in 1..Len(last.run.delivered) :
                     /\ last.run.delivered[j].cb = bus[last.run.name][i]
                     /\ last.run.delivered[j].runs)

\* the step is a removeListener(name) without a callback
RemovesName == last'.op = "removeListener" /\ last'.listener = Undefined

\* C22: removeListener(name) without a callback leaves no callback attached to
\* the name and the callbacks of every other name as they were; an event of a
\* name without attached callbacks calls no listener.
C22_RemoveWithoutCallback ==
    /\ [][RemovesName =>
             /\ bus'[last'.eventType] = << >>
             /\ \A n \in DOMAIN bus : n # last'.eventType => bus'[n] = bus[n]]_vars
    /\ []((Handled /\ last.run.family # "none" /\ bus[last.run.name] = << >>) =>
             last.run.delivered = << >>)

\* removeListener(name) removed the callback of the name and left the callback
\* attached to the other name
C22_Witness ==
    /\ last.op = "removeListener"
    /\ last.listener = Undefined
    /\ Len(last.before) >= 1
    /\ bus[last.eventType] = << >>
    /\ \E n \in RemoveListenNames : n # last.eventType /\ Len(bus[n]) >= 1

\* C23: removeAllListeners() leaves no callback attached to any event name;
\* removeAllListeners(name) leaves none attached to the name and the callbacks
\* of every other name as they were.
C23_RemoveAllListeners ==
    [][last'.op = "removeAllListeners" =>
          \A n \in DOMAIN bus :
              bus'[n] = IF last'.eventType \in {Undefined, n} THEN << >> ELSE bus[n]]_vars

\* removeAllListeners(name) removed the callback of the name and left the
\* callback attached to the other name
C23_Witness ==
    /\ last.op = "removeAllListeners"
    /\ last.eventType \in RemoveListenNames
    /\ Len(last.before) >= 1
    /\ bus[last.eventType] = << >>
    /\ \E n \in RemoveListenNames : n # last.eventType /\ Len(bus[n]) >= 1

----------------------------------------------------------------------------
(* Outbound calls: methods of every branch of callIrisApi, argument        *)
(* objects with and without a toJSON, and the replies of the boundary.     *)

\* an argument object as the generated impl classes build it: the arguments as
\* data properties and a toJSON that returns them
Arguments(fields) == [NoParams EXCEPT !.fields = fields, !.hook = "caller", !.json = fields]

\* an argument object without toJSON
Plain(fields) == [NoParams EXCEPT !.fields = fields]

\* an argument object that refers to itself
Cyclic(fields) == [NoParams EXCEPT !.fields = fields, !.cyclic = TRUE]

Player == [mediaPlayerId |-> 1]

Recorder == [nativeHandle |-> "h1"]

Engine == EmptyFields

FrameParams == Arguments([frame |-> [buffer |-> "fb"]])

AlphaFrameParams == Arguments([frame |-> [buffer |-> "fb", alphaBuffer |-> "ab"]])

MediaParams ==
    Arguments([metadata |-> [buffer |-> "mb"], data |-> "db", imageBuffer |-> "ib",
               media_player |-> [mediaPlayerId |-> 2]])

UidParams == Arguments([uid |-> 1])

\* the calls made: << funcName, params, self >>
IrisCalls ==
    ({"MediaEngine_pushVideoFrame"} \X {FrameParams, AlphaFrameParams, UidParams} \X {Engine})
    \cup ({"MediaEngine_pushAudioFrame"} \X {FrameParams} \X {Engine})
    \cup ({"MediaEngine_pushEncodedVideoImage", "RtcEngine_sendMetaData",
           "RtcEngine_sendStreamMessage", "RtcEngine_destroyMediaPlayer"}
          \X {MediaParams} \X {Engine})
    \cup ({"MediaPlayer_open"} \X {UidParams, Plain([uid |-> 1]), Cyclic([uid |-> 1])}
          \X {Player})
    \cup ({"MediaPlayer_open", "MediaRecorder_startRecording"} \X {UidParams} \X {Engine})
    \cup ({"MusicPlayer_open"} \X {UidParams} \X {Player})
    \cup ({"MediaRecorder_startRecording"} \X {UidParams, Plain([uid |-> 1])} \X {Recorder})
    \cup ({"RtcEngine_destroyMediaRecorder"} \X {UidParams} \X {Recorder})
    \cup ({"RtcEngine_initialize", "RtcEngine_release", "RtcEngine_joinChannel"}
          \X {UidParams, Cyclic([uid |-> 1])} \X {Engine})
    \cup ({"AudioDeviceManager_enumeratePlaybackDevices"} \X {UidParams} \X {Engine})

ReturnCodes == {0, -7}

\* the replies of the boundary: an exception, or a return code with an absent,
\* null, empty or non-empty result text
Replies ==
    {[NoReply EXCEPT !.thrown = TRUE]}
    \cup {[NoReply EXCEPT !.code = c, !.result = r] :
            c \in ReturnCodes,
            r \in {[kind |-> "undefined", text |-> ""], [kind |-> "null", text |-> ""]}
                  \cup {[kind |-> "string", text |-> t] :
                           t \in {"", "{\"result\":0}", "{\"result\":-2}", "null", "7", "{oops"}}}

NextCall ==
    \/ \E flag \in BOOLEAN : setDebuggable(flag)
    \/ \E c \in IrisCalls, reply \in Replies : Call(c[1], c[2], c[3], reply)

SpecCall == Init /\ [][NextCall]_vars

\* the last operation was a call of callIrisApi
Calls == last.op = "callIrisApi"

\* the boundary calls of the last call that are calls of op
BoundaryCalls(op) == SelectSeq(last.call.trace, LAMBDA c : c.op = op)

\* the last call reached the boundary's CallApi and the boundary answered
Answered == Calls /\ BoundaryCalls("CallApi") # << >> /\ ~last.call.reply.thrown

\* C24, as claimed: pushVideoFrame passes five buffers to the boundary: the
\* frame buffer, three empty buffers, and last the alpha buffer, or an empty
\* buffer when the frame has no alphaBuffer.
C24_PushVideoFrameLayout ==
    (Calls /\ last.call.funcName = "MediaEngine_pushVideoFrame"
           /\ BoundaryCalls("CallApi") # << >>) =>
        LET frame == last.call.before.fields.frame
            sent == BoundaryCalls("CallApi")[1]
        IN  /\ sent.length = 5
            /\ sent.buffers = << frame.buffer, EmptyBuffer, EmptyBuffer, EmptyBuffer,
                                 IF "alphaBuffer" \in DOMAIN frame THEN frame.alphaBuffer
                                                                  ELSE EmptyBuffer >>

\* C25, as claimed: no exception leaves callIrisApi; when the boundary's CallApi
\* raises, one message is logged, at error level in debug mode and at warning
\* level otherwise, and {} is returned.
C25_NeverThrows ==
    Calls =>
        /\ ~last.call.escaped
        /\ (BoundaryCalls("CallApi") # << >> /\ last.call.reply.thrown) =>
               /\ last.call.returned = EmptyObject
               /\ last.call.logs = << Log(IF last.call.debug THEN "error" ELSE "warn",
                                          "exception") >>

\* C26, as claimed: a release that reaches the boundary calls CallApi once, with
\* the method name, then ReleaseEnv once, whatever CallApi did, and returns
\* undefined without decoding or logging.
C26_ReleaseSequencing ==
    (Calls /\ last.call.funcName = "RtcEngine_release"
           /\ BoundaryCalls("CallApi") # << >>) =>
        /\ Len(last.call.trace) = 2
        /\ last.call.trace[1].op = "CallApi"
        /\ last.call.trace[1].funcName = "RtcEngine_release"
        /\ last.call.trace[2].op = "ReleaseEnv"
        /\ last.call.returned = NoValue
        /\ last.call.logs = << >>

\* { result: c } returned and one message logged, at error level in debug mode
\* and at warning level otherwise
FallsBack ==
    /\ last.call.returned = Object([result |-> last.call.reply.code])
    /\ last.call.logs = << Log(IF last.call.debug THEN "error" ELSE "warn", "code") >>

\* the reply of the last call has an absent, null or empty result text
EmptyResult ==
    \/ last.call.reply.result.kind \in {"undefined", "null"}
    \/ last.call.reply.result.text = ""

\* C27, as claimed: a call answered with an absent, null or empty result text
\* and return code c returns { result: c } and logs one message, a warning
\* outside debug mode and an error in debug mode.
C27_EmptyResultFallbackAnyMethod == (Answered /\ EmptyResult) => FallsBack

\* C27, amended: the same of every method but RtcEngine_release.
C27_EmptyResultFallback ==
    (Answered /\ EmptyResult /\ last.call.funcName # "RtcEngine_release") => FallsBack

\* outside debug mode a call answered with return code -7 and the text ''
\* returned { result: -7 } and logged a warning
C27_Witness ==
    /\ Answered
    /\ ~last.call.debug
    /\ last.call.reply.code = -7
    /\ last.call.reply.result = [kind |-> "string", text |-> ""]
    /\ last.call.returned = Object([result |-> -7])
    /\ last.call.logs = << Log("warn", "code") >>

\* C28, as claimed: a call that decodes a non-empty result text that is a JSON
\* text returns the parsed value; in debug mode it logs one message, at error
\* level when the value's result is a number below 0 and at debug level
\* otherwise.
C28_ResultDecoding ==
    (Answered /\ ~EmptyResult /\ last.call.funcName # "RtcEngine_release"
              /\ ~JSONparse(last.call.reply.result.text).thrown) =>
        LET value == JSONparse(last.call.reply.result.text).value
        IN  /\ last.call.returned = value
            /\ last.call.debug =>
                   last.call.logs =
                       << Log(IF value.kind = "object" /\ "result" \in DOMAIN value.fields
                                 /\ value.fields["result"] < 0
                              THEN "error" ELSE "debug", "result") >>

\* C29: a call of RtcEngine_initialize calls InitializeEnv once, before its
\* CallApi; a call of any other method does not call InitializeEnv.
C29_InitializeSequencing ==
    Calls =>
        IF last.call.funcName = "RtcEngine_initialize"
        THEN /\ Len(BoundaryCalls("InitializeEnv")) = 1
             /\ last.call.trace[1].op = "InitializeEnv"
        ELSE BoundaryCalls("InitializeEnv") = << >>

\* a call of RtcEngine_initialize called InitializeEnv and then CallApi
C29_Witness ==
    /\ Calls
    /\ last.call.funcName = "RtcEngine_initialize"
    /\ Len(last.call.trace) = 2
    /\ last.call.trace[1].op = "InitializeEnv"
    /\ last.call.trace[2].op = "CallApi"
    /\ last.call.trace[2].funcName = "RtcEngine_initialize"

\* the method is a method of a media player, a music player or a recorder
OfInstance(funcName) ==
    \/ StartsWith(funcName, "MediaPlayer_")
    \/ StartsWith(funcName, "MusicPlayer_")
    \/ StartsWith(funcName, "MediaRecorder_")

\* the JSON object has the properties of the other, with their values
Includes(json, other) ==
    \A k \in DOMAIN other : k \in DOMAIN json /\ json[k] = other[k]

\* the identity of the calling instance as the JSON text names it
IdentityOf(funcName, self) ==
    IF StartsWith(funcName, "MediaRecorder_")
    THEN IF "nativeHandle" \in DOMAIN self THEN [nativeHandle |-> self.nativeHandle]
                                           ELSE EmptyFields
    ELSE [playerId |-> self.mediaPlayerId]

\* C30, as claimed: the JSON text that a method of a player or recorder sends
\* to the boundary has the identity of the calling instance and the caller's
\* serialized arguments, and the call leaves the data properties of the
\* caller's argument object as they were.
C30_IdentityInjection ==
    (Calls /\ OfInstance(last.call.funcName) /\ BoundaryCalls("CallApi") # << >>) =>
        LET sent == BoundaryCalls("CallApi")[1].json
        IN  /\ Includes(sent, IdentityOf(last.call.funcName, last.call.self))
            /\ Includes(sent, Stringify(last.call.before).json)
            /\ last.call.params.fields = last.call.before.fields

----------------------------------------------------------------------------
(* The family descriptor table under direct calls of emitEvent.            *)

\* EVENT_PROCESSORS.<key>: the table's own entry of a family
TableEntry(key) ==
    ProcessorValues[CHOOSE i \in 1..Len(ProcessorValues) : ProcessorValues[i].key = key]

\* eventProcessor.preprocess = undefined on the object the caller passed: the
\* table's entry loses its preprocess when the run cleared it
ClearedInTable(run) ==
    IF run.cleared THEN preprocess_defined \ {run.family} ELSE preprocess_defined

\* emitEvent(eventType, EVENT_PROCESSORS.<key>, data), called from outside the
\* router with the table's entry and no buffers, as the tests call it; the
\* payload object is given by its JSON text, which is kept as the envelope of
\* the observation; an exception reaches the caller
EmitEvent(eventType, key, text) ==
    /\ LET run == emitEvent([NoRun EXCEPT !.family = key, !.name = eventType],
                            eventType, key, TableEntry(key).func,
                            key \in preprocess_defined, ParseData(text), NoBuffers)
       IN  /\ last' = [Observed("emitEvent", eventType, Undefined)
                           EXCEPT !.envelope = Envelope(eventType, text, NoBuffers),
                                  !.run = run, !.escaped = run.thrown]
           /\ preprocess_defined' = ClearedInTable(run)
    /\ UNCHANGED << registries, bus, callbacks, agoraCallback, removed, AgoraEnv >>

TableListenNames == {"onStreamMessage", "onFrame"}

TableEnvelopes ==
    Envelopes({"RtcEngineEventHandler_onStreamMessage", "MediaPlayerVideoFrameObserver_onFrame"},
              {"{}", "{\"playerId\":1,\"frame\":{}}"}, {Buffers(<< "b0" >>)})

TableEmits ==
    {<< "onStreamMessage", "IRtcEngineEventHandler" >>,
     << "onFrame", "IMediaPlayerVideoFrameObserver" >>,
     << "onFrame", "IMediaPlayerSourceObserver" >>}

NextTable ==
    \/ \E n \in TableListenNames, l \in Listeners : addListener(n, l)
    \/ \E n \in TableListenNames, l \in Listeners : removeListener(n, l)
    \/ release
    \/ \E e \in TableEnvelopes : OnEvent(e)
    \/ \E c \in TableEmits, d \in {"{}", "{\"playerId\":1,\"frame\":{}}"} :
           EmitEvent(c[1], c[2], d)

SpecTable == Init /\ [][NextTable]_vars

\* C31: no operation changes an entry of the family descriptor table: in every
\* reachable state every family that has a preprocess in the table as written
\* still has it, and an inbound event of such a family that resolves its
\* targets runs the preprocess
C31_TableImmutable ==
    /\ preprocess_defined = InitialPreprocess
    /\ (last.op = "OnEvent" /\ last.run.family \in InitialPreprocess
            /\ last.run.targets = "list")
       => last.run.preprocessCalls = 1

\* what does hold: only a direct emitEvent changes the table; the router, the
\* listener calls and release leave it alone
C31_OnlyDirectEmitClears ==
    [][last'.op # "emitEvent" => preprocess_defined' = preprocess_defined]_vars

\* the table has lost a preprocess and the next event of the family ran none
C31_Lost ==
    /\ last.op = "OnEvent" /\ last.run.family \in InitialPreprocess
    /\ last.run.targets = "list"
    /\ last.run.preprocessCalls = 0

----------------------------------------------------------------------------
(* Destroying a media player or a media recorder.                          *)

\* MediaPlayerInternal.release(), of the player with the id: the player's
\* entries leave the four player maps
MediaPlayerRelease(playerId) ==
    [field \in DOMAIN player_observers |->
        [k \in (DOMAIN player_observers[field]) \ {playerId} |-> player_observers[field][k]]]

\* MediaRecorderInternal.release(), of the recorder with the native handle:
\* the recorder's entry leaves the recorder map
MediaRecorderRelease(nativeHandle) ==
    [k \in (DOMAIN recorder_observers) \ {nativeHandle} |-> recorder_observers[k]]

\* super.destroyMediaPlayer(mediaPlayer) / super.destroyMediaRecorder(mediaRecorder):
\* the native destroy call, made through callIrisApi on the engine with an
\* argument object that has its own toJSON
NativeDestroy(funcName, fields, reply) ==
    LET params == [NoParams EXCEPT !.fields = fields, !.hook = "caller"]
    IN  Called(funcName, params, Engine, reply, isDebuggable,
               callIrisApi(funcName, params, Engine, reply, isDebuggable))

\* a release that is invoked only when the native call answered without a
\* negative code
ReleasesInstanceOnSuccess(call) ==
    /\ ~call.escaped
    /\ ~call.reply.thrown
    /\ call.reply.code = 0

\* const ret = super.destroy...(instance); instance.release?.call(instance):
\* the release is the next statement whatever ret is, and is reached unless
\* the native call raised
ReleasesInstance(call) == ~call.escaped

\* RtcEngineExInternal.destroyMediaPlayer(mediaPlayer), the boundary answering
\* the native call with reply
destroyMediaPlayer(mediaPlayer, reply) ==
    /\ LET call == NativeDestroy("RtcEngine_destroyMediaPlayer",
                                 [media_player |-> mediaPlayer], reply)
           released == ReleasesInstance(call)
           playerId == mediaPlayer.mediaPlayerId
       IN  /\ player_observers' = IF released THEN MediaPlayerRelease(playerId)
                                  ELSE player_observers
           /\ last' = [Observed("destroyMediaPlayer", "", Undefined) EXCEPT
                          !.call = call,
                          !.stale.players =
                              IF released /\ playerId \in PlayersObserved
                              THEN @ \cup {playerId} ELSE @]
    /\ UNCHANGED << event_handlers, direct_cdn_streaming_event_handler, metadata_observer,
                    audio_encoded_frame_observers, audio_spectrum_observers,
                    recorder_observers, media_engine_observers, music_event_handlers,
                    preprocess_defined, bus, callbacks, agoraCallback, removed,
                    AgoraEnv >>

\* RtcEngineExInternal.destroyMediaRecorder(mediaRecorder), the boundary
\* answering the native call with reply
destroyMediaRecorder(mediaRecorder, reply) ==
    /\ LET call == NativeDestroy("RtcEngine_destroyMediaRecorder",
                                 [mediaRecorder |-> mediaRecorder], reply)
           released == ReleasesInstance(call)
           nativeHandle == mediaRecorder.nativeHandle
       IN  /\ recorder_observers' = IF released THEN MediaRecorderRelease(nativeHandle)
                                    ELSE recorder_observers
           /\ last' = [Observed("destroyMediaRecorder", "", Undefined) EXCEPT
                          !.call = call,
                          !.stale.recorders =
                              IF released /\ nativeHandle \in DOMAIN recorder_observers
                              THEN @ \cup {nativeHandle} ELSE @]
    /\ UNCHANGED << event_handlers, direct_cdn_streaming_event_handler, metadata_observer,
                    audio_encoded_frame_observers, audio_spectrum_observers,
                    player_observers, media_engine_observers, music_event_handlers,
                    preprocess_defined, bus, callbacks, agoraCallback, removed,
                    AgoraEnv >>

\* the answers of the boundary to a destroy call: an exception, or a return
\* code with an absent, empty or non-empty result text
DestroyReplies ==
    {[NoReply EXCEPT !.thrown = TRUE]}
    \cup {[NoReply EXCEPT !.code = c, !.result = r] :
            c \in ReturnCodes,
            r \in {[kind |-> "undefined", text |-> ""]}
                  \cup {[kind |-> "string", text |-> t] :
                           t \in {"", "{\"result\":0}", "{\"result\":-2}"}}}

DestroyEnvelopes ==
    Envelopes({"AudioPcmFrameSink_onFrame"},
              {"{\"playerId\":1,\"frame\":{}}", "{\"playerId\":2,\"frame\":{}}"},
              {Buffers(<< "b0" >>)})
    \cup Envelopes({"MediaRecorderObserver_onRecorderStateChanged"},
                   {"{\"nativeHandle\":\"h1\"}"}, {Buffers(<< "b0" >>)})

NextDestroy ==
    \/ \E p \in PlayerIds, o \in Observers : registerPlayerAudioFrameObserver(p, o)
    \/ \E h \in RecorderHandles, o \in Observers : setMediaRecorderObserver(h, o)
    \/ \E p \in PlayerIds, reply \in DestroyReplies :
           destroyMediaPlayer([mediaPlayerId |-> p], reply)
    \/ \E h \in RecorderHandles, reply \in DestroyReplies :
           destroyMediaRecorder([nativeHandle |-> h], reply)
    \/ \E e \in DestroyEnvelopes : OnEvent(e)

SpecDestroy == Init /\ [][NextDestroy]_vars

\* the native call of the method was issued during the last operation
IssuedNative(funcName) ==
    \E i \in 1..Len(last.call.trace) :
        last.call.trace[i].op = "CallApi" /\ last.call.trace[i].funcName = funcName

\* C32: destroyMediaPlayer(p) and destroyMediaRecorder(r) issue the native
\* destroy call and, whatever the boundary answered (any return code, any
\* result, an exception), release the instance: after the operation the
\* player has no entry in any of the four player maps, the recorder none in
\* the recorder map
C32_TeardownOnDestroy ==
    /\ last.op = "destroyMediaPlayer" =>
           /\ IssuedNative("RtcEngine_destroyMediaPlayer")
           /\ \A field \in DOMAIN player_observers :
                  last.call.before.fields.media_player.mediaPlayerId
                      \notin DOMAIN player_observers[field]
    /\ last.op = "destroyMediaRecorder" =>
           /\ IssuedNative("RtcEngine_destroyMediaRecorder")
           /\ last.call.before.fields.mediaRecorder.nativeHandle
                  \notin DOMAIN recorder_observers

\* a player that had observers was destroyed and the native call answered with
\* a negative code
C32_Witness ==
    /\ last.op = "destroyMediaPlayer"
    /\ ~last.call.reply.thrown /\ last.call.reply.code < 0
    /\ last.call.before.fields.media_player.mediaPlayerId \in last.stale.players

\* a recorder that had an observer was destroyed and the native call raised
C32_RecorderWitness ==
    /\ last.op = "destroyMediaRecorder"
    /\ last.call.reply.thrown
    /\ last.call.before.fields.mediaRecorder.nativeHandle \in last.stale.recorders

\* the last operation called emitEvent: directly, or from handleEvent after a
\* target resolution and an apply loop that did not raise
ReachedEmit ==
    \/ last.op = "emitEvent"
    \/ /\ last.op = "OnEvent"
       /\ last.run.targets \in {"undefined", "list"}
       /\ ~Raises(last.run.applied)

\* the preprocess of the family was still to run when emitEvent was called: the
\* call came from outside the router, or target resolution yielded no targets
PreprocessLeftToEmit ==
    \/ last.op = "emitEvent"
    \/ last.op = "OnEvent" /\ last.run.targets = "undefined"

\* C33: an emitEvent for a name without listeners emits nothing and calls no
\* one, runs no preprocess, and leaves the payload and the descriptor as they
\* were passed in; with at least one listener the event is emitted, once, to
\* the callbacks attached to the name, with the descriptor's functions and the
\* payload
C33_RepublishOnlyWithListeners ==
    ReachedEmit =>
        IF ListenerCount(last.run.name) = 0
        THEN /\ ~last.run.emitted
             /\ last.run.delivered = << >>
             /\ PreprocessLeftToEmit =>
                    /\ last.run.preprocessCalls = 0
                    /\ ~last.run.cleared
                    /\ last.run.data = ParseData(last.envelope.data)
        ELSE /\ last.run.emitted
             /\ last.run.delivered =
                    EmitCalls(last.run.name, last.run.family,
                              TableEntry(last.run.family).func, last.run.data)

\* the descriptor passed to a direct emitEvent without listeners is the table's
\* entry, which keeps its preprocess
C33_DescriptorKept ==
    [][(last'.op = "emitEvent" /\ ListenerCount(last'.run.name) = 0)
           => preprocess_defined' = preprocess_defined]_vars

\* a direct emitEvent of a family that has a preprocess, with a payload that
\* has a frame, found no listener
C33_Witness ==
    /\ last.op = "emitEvent"
    /\ last.run.family \in InitialPreprocess
    /\ ListenerCount(last.run.name) = 0
    /\ Has(ParseData(last.envelope.data), "frame")
    /\ last.run.family \in preprocess_defined

\* an event without targets was republished to an attached listener
C33_EmittedWitness ==
    /\ last.op = "OnEvent" /\ last.run.targets = "undefined"
    /\ last.run.emitted /\ Len(last.run.delivered) > 0

----------------------------------------------------------------------------
(* Instance-scoped routing: the audio spectrum family, the three player    *)
(* families and the recorder family.                                       *)

\* the register methods of MediaPlayerInternal, of the player with the id:
\* the observer is appended to the player's list in the map `field` (the list
\* is created on first use) unless it is already in it
registerPlayerObserver(field, playerId, observer) ==
    /\ \/ Registered < MaxRegistered
       \/ /\ playerId \in DOMAIN player_observers[field]
          /\ Holds(player_observers[field][playerId], observer)
    /\ LET map == player_observers[field]
           list == IF playerId \in DOMAIN map THEN map[playerId] ELSE << >>
       IN  player_observers' =
               [player_observers EXCEPT ![field] =
                   [k \in (DOMAIN map) \cup {playerId} |->
                       IF k = playerId THEN Register(list, observer) ELSE map[k]]]
    /\ last' = [Observed("registerPlayerObserver", "", observer)
                   EXCEPT !.stale.players = @ \ {playerId}]
    /\ UNCHANGED << event_handlers, direct_cdn_streaming_event_handler, metadata_observer,
                    audio_encoded_frame_observers, audio_spectrum_observers,
                    recorder_observers, media_engine_observers, music_event_handlers,
                    preprocess_defined, bus, callbacks, agoraCallback, removed,
                    AgoraEnv >>

\* the player map a family resolves its targets in
PlayerMapOf ==
    [IAudioSpectrumObserver |-> "audio_spectrum", IMediaPlayerSourceObserver |-> "source",
     IAudioPcmFrameSink |-> "audio_frame", IMediaPlayerVideoFrameObserver |-> "video_frame"]

InstanceEnvelopes ==
    Envelopes({"AudioSpectrumObserver_onLocalAudioSpectrum"},
              {"{}", "{\"playerId\":0}", "{\"playerId\":1,\"frame\":{}}",
               "{\"playerId\":2,\"frame\":{}}"},
              {Buffers(<< "b0" >>)})
    \cup Envelopes({"MediaPlayerSourceObserver_onCompleted", "AudioPcmFrameSink_onFrame",
                    "MediaPlayerVideoFrameObserver_onFrame"},
                   {"{}", "{\"playerId\":1,\"frame\":{}}", "{\"playerId\":2,\"frame\":{}}"},
                   {Buffers(<< "b0" >>)})
    \cup Envelopes({"MediaRecorderObserver_onRecorderStateChanged"},
                   {"{}", "{\"nativeHandle\":\"h1\"}"}, {Buffers(<< "b0" >>)})

NextInstances ==
    \/ \E o \in Observers : registerAudioSpectrumObserver(o)
    \/ \E field \in DOMAIN player_observers, p \in PlayerIds, o \in Observers :
           registerPlayerObserver(field, p, o)
    \/ \E h \in RecorderHandles, o \in Observers : setMediaRecorderObserver(h, o)
    \/ \E e \in InstanceEnvelopes : OnEvent(e)

SpecInstances == Init /\ [][NextInstances]_vars

\* the targets of the apply calls of the last event are, in order, the first
\* elements of the list
AppliedWithin(list) ==
    /\ Len(last.run.applied) <= Len(list)
    /\ \A i \in 1..Len(last.run.applied) : last.run.applied[i].target = list[i]

\* the payload of the last event, and the list stored under its player id in
\* the map (no list when the payload has no player id or the id has no entry)
LastPayload == ParseData(last.envelope.data)

StoredUnder(field) ==
    IF Has(LastPayload, "playerId") /\ LastPayload.fields.playerId \in DOMAIN player_observers[field]
    THEN player_observers[field][LastPayload.fields.playerId]
    ELSE << >>

\* C34: an audio spectrum event with playerId 0 is applied only to the
\* engine-wide audio spectrum observers; one with another playerId p only to
\* the observers stored under p in the players' audio spectrum map, and to no
\* observer when p has no entry or the payload has no playerId
C34_SpectrumRouting ==
    (last.op = "OnEvent" /\ last.run.family = "IAudioSpectrumObserver") =>
        IF Has(LastPayload, "playerId") /\ LastPayload.fields.playerId = 0
        THEN AppliedWithin(audio_spectrum_observers)
        ELSE AppliedWithin(StoredUnder("audio_spectrum"))

\* a spectrum event of player 1 was applied to the observer of player 1 while
\* the engine had another observer
C34_Witness ==
    /\ last.op = "OnEvent" /\ last.run.family = "IAudioSpectrumObserver"
    /\ Has(LastPayload, "playerId") /\ LastPayload.fields.playerId = 1
    /\ Len(last.run.applied) = 1
    /\ Len(audio_spectrum_observers) = 1
    /\ audio_spectrum_observers[1] # last.run.applied[1].target

PlayerFamilies == {"IMediaPlayerSourceObserver", "IAudioPcmFrameSink", "IMediaPlayerVideoFrameObserver"}

\* the observer stored under the native handle of the last event's payload
RecorderStored ==
    IF Has(LastPayload, "nativeHandle") /\ LastPayload.fields.nativeHandle \in DOMAIN recorder_observers
    THEN << recorder_observers[LastPayload.fields.nativeHandle] >>
    ELSE << >>

\* C35, as claimed: an event of a player family with playerId p invokes exactly
\* the observers stored under p, each of them, and none stored under another
\* key; a recorder event with nativeHandle h invokes at most the observer
\* stored under h, and none, without raising, when h has no entry.
C35_Isolation ==
    /\ (last.op = "OnEvent" /\ last.run.family \in PlayerFamilies) =>
           /\ AppliedWithin(StoredUnder(PlayerMapOf[last.run.family]))
           /\ Len(last.run.applied) = Len(StoredUnder(PlayerMapOf[last.run.family]))
    /\ (last.op = "OnEvent" /\ last.run.family = "IMediaRecorderObserver") =>
           /\ AppliedWithin(RecorderStored)
           /\ RecorderStored = << >> => ~last.run.thrown

\* what does hold: no observer stored under another key is invoked, the
\* observers of the key are invoked in their order up to the first that
\* raises, and a recorder event without an entry invokes none and raises nothing
C35_NoOtherKey ==
    /\ (last.op = "OnEvent" /\ last.run.family \in PlayerFamilies) =>
           /\ AppliedWithin(StoredUnder(PlayerMapOf[last.run.family]))
           /\ ~Raises(last.run.applied) =>
                  Len(last.run.applied) = Len(StoredUnder(PlayerMapOf[last.run.family]))
    /\ (last.op = "OnEvent" /\ last.run.family = "IMediaRecorderObserver") =>
           /\ AppliedWithin(RecorderStored)
           /\ RecorderStored = << >> => ~last.run.thrown

\* an event of player 1 invoked fewer observers than are stored under 1
C35_Aborted ==
    /\ last.op = "OnEvent" /\ last.run.family \in PlayerFamilies
    /\ Len(last.run.applied) < Len(StoredUnder(PlayerMapOf[last.run.family]))

----------------------------------------------------------------------------
(* The buffer splice of the two video frame families.                      *)

\* MediaEngineInternal.registerVideoFrameObserver(observer): the observer is
\* appended to the media engine's video frame observers unless it is in them
registerMediaEngineVideoFrameObserver(observer) ==
    /\ Registered < MaxRegistered \/ Holds(media_engine_observers.video_frame, observer)
    /\ media_engine_observers' =
           [media_engine_observers EXCEPT !.video_frame = Register(@, observer)]
    /\ last' = Observed("registerMediaEngineVideoFrameObserver", "", observer)
    /\ UNCHANGED << event_handlers, direct_cdn_streaming_event_handler, metadata_observer,
                    audio_encoded_frame_observers, audio_spectrum_observers, player_observers,
                    recorder_observers, music_event_handlers,
                    preprocess_defined, bus, callbacks, agoraCallback, removed,
                    AgoraEnv >>

\* the raw buffer lists of a video frame event: all five buffers, the first
\* two only, none
SpliceBuffers ==
    {Buffers(<< "b0", "b1", "b2", "b3", "b4" >>), Buffers(<< "b0", "b1" >>), Buffers(<< >>)}

SpliceEnvelopes ==
    Envelopes({"VideoFrameObserver_onCaptureVideoFrame"},
              {"{}", "{oops", "{\"videoFrame\":{}}",
               "{\"videoFrame\":{\"yBuffer\":\"stale\",\"width\":4}}",
               "{\"playerId\":1,\"frame\":{}}"},
              SpliceBuffers)
    \cup Envelopes({"MediaPlayerVideoFrameObserver_onFrame"},
                   {"{}", "{oops", "{\"playerId\":1,\"frame\":{}}", "{\"playerId\":2,\"frame\":{}}",
                    "{\"videoFrame\":{}}"},
                   SpliceBuffers)

SplicePlayers == {1}

NextSplice ==
    \/ \E o \in Observers : registerMediaEngineVideoFrameObserver(o)
    \/ \E p \in SplicePlayers, o \in Observers : registerPlayerObserver("video_frame", p, o)
    \/ \E l \in Listeners : addListener("onFrame", l)
    \/ \E e \in SpliceEnvelopes : OnEvent(e)

SpecSplice == Init /\ [][NextSplice]_vars

\* the payload property that holds the frame of a video frame family
FrameProperty == [IVideoFrameObserver |-> "videoFrame", IMediaPlayerVideoFrameObserver |-> "frame"]

\* the frame's buffer properties and the raw buffer position of each
BufferPositions ==
    [yBuffer |-> 0, uBuffer |-> 1, vBuffer |-> 2, metadata_buffer |-> 3, alphaBuffer |-> 4]

\* the last operation handled an event of a video frame family and ran its
\* preprocess
Spliced ==
    /\ last.op = "OnEvent"
    /\ last.run.family \in DOMAIN FrameProperty
    /\ last.run.preprocessCalls = 1

\* C36: when the preprocess of a video frame family runs on a payload that has
\* the frame object, the frame's yBuffer, uBuffer, vBuffer, metadata_buffer and
\* alphaBuffer become the raw buffers at positions 0, 1, 2, 3 and 4, whatever
\* else the payload and the frame hold, and nothing else of the payload
\* changes; on a payload without the frame object it changes nothing
C36_PositionalSplice ==
    Spliced =>
        LET outer == FrameProperty[last.run.family]
            before == LastPayload
            after == last.run.data
        IN  IF Has(before, outer)
            THEN /\ after.kind = "object"
                 /\ DOMAIN after.fields = DOMAIN before.fields
                 /\ \A k \in DOMAIN before.fields \ {outer} : after.fields[k] = before.fields[k]
                 /\ DOMAIN after.fields[outer] =
                        (DOMAIN before.fields[outer]) \cup DOMAIN BufferPositions
                 /\ \A k \in DOMAIN after.fields[outer] :
                        after.fields[outer][k] =
                            IF k \in DOMAIN BufferPositions
                            THEN BufferAt(last.envelope.buffers, BufferPositions[k])
                            ELSE before.fields[outer][k]
            ELSE after = before

\* a captured video frame that already had a yBuffer and a width got the five
\* buffers at their positions
C36_Witness ==
    /\ Spliced
    /\ last.run.family = "IVideoFrameObserver"
    /\ Has(LastPayload, "videoFrame")
    /\ "width" \in DOMAIN LastPayload.fields.videoFrame
    /\ Len(last.envelope.buffers.list) = 5
    /\ last.run.data.fields.videoFrame.alphaBuffer = "b4"

\* the preprocess of the player's video frame family ran on a payload
\* without a frame
C36_NoFrameWitness ==
    /\ Spliced
    /\ last.run.family = "IMediaPlayerVideoFrameObserver"
    /\ ~Has(LastPayload, "frame")

----------------------------------------------------------------------------
(* The order of the stages of one handleEvent: preprocess, apply, emit.    *)

OrderListenNames == {"onStreamMessage", "onLocalVideoStats"}

OrderEnvelopes ==
    Envelopes({"RtcEngineEventHandler_onStreamMessage"}, {"{}"},
              {Buffers(<< "b0" >>), NoBuffers})
    \cup Envelopes({"RtcEngineEventHandler_onLocalVideoStats"}, {"{\"connection\":{}}"},
                   {Buffers(<< "b0" >>)})
    \cup Envelopes({"AudioPcmFrameSink_onFrame"},
                   {"{\"playerId\":1,\"frame\":{}}", "{\"playerId\":2,\"frame\":{}}"},
                   {Buffers(<< "b0" >>), NoBuffers})

OrderPlayers == {1}

NextOrder ==
    \/ \E o \in Observers : registerEventHandler(o)
    \/ \E p \in OrderPlayers, o \in Observers : registerPlayerObserver("audio_frame", p, o)
    \/ \E n \in OrderListenNames, l \in Listeners : addListener(n, l)
    \/ \E l \in Listeners : addListenerOf("IMediaPlayer", "onFrame", l)
    \/ \E e \in OrderEnvelopes : OnEvent(e)
    \/ EmitEvent("onStreamMessage", "IRtcEngineEventHandler", "{}")

SpecOrder == Init /\ [][NextOrder]_vars

\* a listener's callback was invoked for the last inbound event
ListenerInvoked ==
    /\ last.op = "OnEvent"
    /\ \E i \in 1..Len(last.run.delivered) : last.run.delivered[i].runs

\* the targets the family of the last event resolves (the registries are as
\* they were when the event was handled), and every apply call on them
ResolvedTargets == Handlers(last.run.family, last.run.name, LastPayload)

AllApplyCalls ==
    LET targets == SelectSeq(ResolvedTargets.list, LAMBDA v : v # Undefined)
        func == TableEntry(last.run.family).func
    IN  [i \in 1..(Len(targets) * Len(func)) |->
            [fn |-> func[((i - 1) % Len(func)) + 1],
             target |-> targets[((i - 1) \div Len(func)) + 1]]]

\* the payload after the preprocess of the family, on the buffers of the
\* envelope (emitEvent takes an absent buffer list as an empty one)
Preprocessed ==
    IF last.run.family \in preprocess_defined
    THEN Preprocess(last.run.family, last.run.name, LastPayload,
                    IF last.envelope.buffers.defined THEN last.envelope.buffers
                    ELSE Buffers(<< >>)).data
    ELSE LastPayload

\* C37: whenever a listener's callback is invoked for an inbound event, every
\* apply call on the resolved observers has been made and has returned, and
\* the payload has had the preprocess of the family's descriptor applied, once,
\* also when no targets were resolved and the preprocess ran in emitEvent
C37_ObserversBeforeListeners ==
    ListenerInvoked =>
        /\ ~Raises(last.run.applied)
        /\ Len(last.run.applied) = Len(AllApplyCalls)
        /\ \A i \in 1..Len(AllApplyCalls) :
               /\ last.run.applied[i].fn = AllApplyCalls[i].fn
               /\ last.run.applied[i].target = AllApplyCalls[i].target
        /\ last.run.data = Preprocessed
        /\ last.run.family \in preprocess_defined => last.run.preprocessCalls = 1

\* a listener of a player facade was invoked for a PCM frame of a player
\* without observers: the preprocess ran in emitEvent and the frame has its data
C37_Witness ==
    /\ ListenerInvoked
    /\ last.run.family = "IAudioPcmFrameSink"
    /\ last.run.targets = "undefined"
    /\ "data_" \in DOMAIN last.run.data.fields.frame

\* a listener was invoked after two observers were applied
C37_AppliedWitness ==
    /\ ListenerInvoked
    /\ Len(last.run.applied) >= 2
    /\ last.run.family \in preprocess_defined

\* a listener of the engine was invoked for an event of the engine's family
\* that resolved no targets, after the preprocess ran in emitEvent
C37_EngineWitness ==
    /\ ListenerInvoked
    /\ last.run.family = "IRtcEngineEventHandler"
    /\ last.run.targets = "undefined"
    /\ last.run.preprocessCalls = 1

----------------------------------------------------------------------------
(* The buffer list and the buffer count of an outbound call.               *)

\* the methods whose case pushes one buffer
OneBufferMethods ==
    {"MediaEngine_pushAudioFrame", "MediaEngine_pushCaptureAudioFrame",
     "MediaEngine_pushReverseAudioFrame", "MediaEngine_pushDirectAudioFrame",
     "MediaEngine_pushEncodedVideoImage", "RtcEngine_sendMetaData",
     "RtcEngine_sendStreamMessage", "RtcEngine_sendStreamMessageEx"}

\* the methods without a case that pushes a buffer, of every prefix
NoBufferMethods ==
    {"MediaEngine_registerAudioFrameObserver", "MediaPlayer_open", "MusicPlayer_open",
     "MediaRecorder_startRecording", "RtcEngine_initialize", "RtcEngine_release",
     "RtcEngine_joinChannel", "RtcEngine_destroyMediaPlayer", "RtcEngine_destroyMediaRecorder",
     "RtcEngineEx_sendStreamMessageEx", "AudioDeviceManager_enumeratePlaybackDevices"}

\* the calls made: the argument object holds every buffer the cases read, or none
BufferCalls ==
    ((OneBufferMethods \cup {"MediaEngine_pushVideoFrame"})
        \X {Arguments([frame |-> [buffer |-> "fb"], metadata |-> [buffer |-> "mb"],
                       data |-> "db", imageBuffer |-> "ib"]),
            Arguments([frame |-> EmptyFields, metadata |-> EmptyFields]),
            UidParams}
        \X {Engine})
    \cup (NoBufferMethods \X {MediaParams, UidParams} \X {Engine, Player})

\* the answers of the boundary
BufferReplies ==
    {[NoReply EXCEPT !.thrown = TRUE],
     [NoReply EXCEPT !.code = -7],
     [NoReply EXCEPT !.result = [kind |-> "string", text |-> "{\"result\":0}"]]}

NextBuffers ==
    \/ \E flag \in BOOLEAN : setDebuggable(flag)
    \/ \E c \in BufferCalls, reply \in BufferReplies : Call(c[1], c[2], c[3], reply)

SpecBuffers == Init /\ [][NextBuffers]_vars

C38_NoRuleWitness ==
    /\ Calls
    /\ last.call.funcName = "RtcEngineEx_sendStreamMessageEx"
    /\ "data" \in DOMAIN last.call.before.fields
    /\ BoundaryCalls("CallApi") # << >>
    /\ BoundaryCalls("CallApi")[1].length = 0

----------------------------------------------------------------------------
(* Listener removal and the observer registries.                           *)

KeepListenNames == {"onStreamMessage", "onLocalAudioSpectrum"}

KeepObservers == {"o1"}

NextKeep ==
    \/ \E o \in KeepObservers : registerEventHandler(o)
    \/ \E o \in KeepObservers : unregisterEventHandler(o)
    \/ \E n \in KeepListenNames, l \in Listeners : addListener(n, l)
    \/ \E n \in KeepListenNames, l \in Listeners \cup {Undefined} : removeListener(n, l)
    \/ \E n \in KeepListenNames \cup {Undefined} : removeAllListeners(n)
    \/ release

SpecKeep == Init /\ [][NextKeep]_vars

\* C39: removeListener and removeAllListeners leave every registry as it is, so
\* the {} observer that addListener registered stays in its registry when the
\* listener is removed; release empties the registries
C39_RemovalKeepsRegistries ==
    [][/\ last'.op \in {"removeListener", "removeAllListeners"} => registries' = registries
       /\ last'.op = "release" =>
              event_handlers' = << >> /\ audio_spectrum_observers' = << >>]_vars

\* the only listener of onStreamMessage was removed and the {} observer its
\* addListener registered is still the registry's entry
C39_Witness ==
    /\ last.op = "removeListener"
    /\ last.eventType = "onStreamMessage"
    /\ Len(last.before) = 1
    /\ bus["onStreamMessage"] = << >>
    /\ event_handlers = << EmptyObserver >>

\* removeAllListeners() removed the listeners of both names and both {}
\* observers are still registered
C39_AllWitness ==
    /\ last.op = "removeAllListeners"
    /\ \A n \in KeepListenNames : bus[n] = << >>
    /\ event_handlers = << EmptyObserver >>
    /\ audio_spectrum_observers = << EmptyObserver >>

----------------------------------------------------------------------------
(* One bus for every facade: listeners of the engine and of a media player *)
(* facade under the same event names.                                      *)

SharedListenNames == {"onFrame", "onStreamMessage"}

SharedEnvelopes ==
    Envelopes({"AudioPcmFrameSink_onFrame"}, {"{\"playerId\":1,\"frame\":{}}"},
              {Buffers(<< "b0" >>)})

NextShared ==
    \/ \E n \in SharedListenNames, l \in Listeners : addListener(n, l)
    \/ \E n \in SharedListenNames, l \in Listeners : addListenerOf("IMediaPlayer", n, l)
    \/ \E n \in SharedListenNames, l \in Listeners \cup {Undefined} : removeListener(n, l)
    \/ \E n \in SharedListenNames \cup {Undefined} : removeAllListeners(n)
    \/ release
    \/ \E e \in SharedEnvelopes : OnEvent(e)

SpecShared == Init /\ [][NextShared]_vars

\* C40: the bus is one emitter for every facade: removeAllListeners() without
\* a name and release() on the engine leave no callback of any facade attached
\* to any name, and removeListener(name) without a callback leaves no callback
\* of any facade attached to the name; an event of the name then reaches no
\* listener
C40_SharedBus ==
    /\ ((last.op = "removeAllListeners" /\ last.eventType = Undefined) \/ last.op = "release")
           => \A n \in DOMAIN bus : bus[n] = << >>
    /\ (last.op = "removeListener" /\ last.listener = Undefined)
           => bus[last.eventType] = << >>
    /\ (last.op = "OnEvent" /\ last.run.delivered # << >>)
           => \A i \in 1..Len(last.run.delivered) :
                  \E j \in 1..Len(bus[last.run.name]) :
                      bus[last.run.name][j] = last.run.delivered[i].cb

\* the engine's removeListener(name) without a callback removed a callback of
\* the engine facade and one of a player facade
C40_Witness ==
    /\ last.op = "removeListener" /\ last.listener = Undefined
    /\ \E i, j \in 1..Len(last.before) :
           /\ callbacks[last.before[i]].kind = "IRtcEngine"
           /\ callbacks[last.before[j]].kind = "IMediaPlayer"
    /\ bus[last.eventType] = << >>

\* the engine's release removed a listener that a player facade had attached
C40_ReleaseWitness ==
    /\ last.op = "release"
    /\ \E c \in 1..Len(callbacks) :
           /\ callbacks[c].kind = "IMediaPlayer"
           /\ << callbacks[c].eventType, callbacks[c].listener >> \in removed
           /\ agoraCallback[callbacks[c].listener] = c
    /\ Len(callbacks) = 1

====
